---- MODULE Spec2Model ----
(***************************************************************************)
(* A model of the RAG indexing and retrieval engine:                       *)
(*   - TextChunker (src/src/chunker.py): construction, split_text and the  *)
(*     character-window pass _split_by_characters, as a step machine       *)
(*     (specification SpecChunker);                                        *)
(*   - VectorStore, Retriever and RAGPipeline (src/src/vector_store.py,    *)
(*     src/src/retriever.py, src/src/rag_pipeline.py) over a modelled      *)
(*     backend collection (specification Spec);                            *)
(*   - the request handlers of src/app.py on the one event loop            *)
(*     (specification SpecApp), and one RAGPipeline called by two callers  *)
(*     (specification SpecShared);                                         *)
(*   - a VectorStore whose collection can be deleted (specification        *)
(*     SpecHandle).                                                        *)
(* Strings are sequences of one-character strings; Python's slice and      *)
(* rfind index rules are modelled as Python applies them.                  *)
(***************************************************************************)
EXTENDS Integers, Sequences, FiniteSets, TLC

VARIABLES
    ck,             \* the TextChunker's fields, or NoChunker
    ck_error,       \* TRUE when the construction raised ValueError
    ctor_args,      \* the arguments the constructor was called with
    text,           \* the argument of the running split_text call
    pc,             \* position of the chunker run
    segments,       \* split_text: text.split(separator)
    seg_i,          \* split_text: 1-based position of the for loop
    current_chunk,  \* split_text: the running buffer
    chunks,         \* split_text: the chunk list (the result when pc = "done")
    w_text,         \* _split_by_characters: its text argument
    start,          \* _split_by_characters: window start
    w_chunks,       \* _split_by_characters: its local chunk list
    chunk_index,    \* _split_by_characters: its running index
    coll,           \* the backend collection: its entries in insertion order
    score_threshold,\* Retriever.score_threshold
    top_k,          \* Retriever.top_k, also RAGPipeline.config["top_k"]
    op,             \* the call whose outcome the caller holds, or "none"
    args,           \* that call's arguments
    pre_coll,       \* the collection as it was when the call began
    raised,         \* TRUE when the call raised an exception
    ret_count,      \* the value add_documents returned
    ret_results,    \* the list retrieve returned
    ret_response,   \* the RAGResponse query returned
    embed_calls,    \* Embedder calls (embed_text, embed_texts) made during the call
    search_calls,   \* VectorStore.search calls made during the call
    gen_calls,      \* Generator.generate calls made during the call
    add_calls,      \* VectorStore.add_documents calls made during a pipeline call
    search_out,     \* what the call's first VectorStore.search returned
    ret_context,    \* the string retrieve_with_context returned
    ret_sources,    \* the list get_sources returned
    requests,       \* the web application: the requests received, in arrival order
    running,        \* the handlers in progress: [id, req, todo, written, cleared],
                    \* todo the records the handler's collection.add writes and
                    \* written the number of them it has written
    handled,        \* the requests whose handler has returned, in order, each
                    \* with the count() its handler saw last
    passed_docs,    \* chunk_documents: the documents as they were when passed
    caller_docs,    \* chunk_documents: the caller's Document objects after it
    all_chunks,     \* chunk_documents: the list it returned
    collection_exists, \* the backend holds the collection self.collection names
    second_todo     \* the records the collection.add of a second caller's
                    \* index_documents has still to write

chunkerVars == <<ck, ck_error, ctor_args, text, pc, segments, seg_i, current_chunk, chunks,
                 w_text, start, w_chunks, chunk_index>>

storeVars == <<coll, score_threshold, top_k, op, args, pre_coll, raised, ret_count,
               ret_results, ret_response, embed_calls, search_calls, gen_calls, add_calls,
               search_out, ret_context, ret_sources>>

appVars == <<requests, running, handled>>

\* the store's variables that hold the last direct call and its outcome
callVars == <<score_threshold, top_k, op, args, pre_coll, raised, ret_count,
              ret_results, ret_response, embed_calls, search_calls, gen_calls, add_calls,
              search_out, ret_context, ret_sources>>

docVars == <<passed_docs, caller_docs, all_chunks>>

handleVars == <<collection_exists, second_todo>>

vars == <<chunkerVars, storeVars, appVars, docVars, handleVars>>

----------------------------------------------------------------------------
(* Bounds of the model *)

MaxDocs == 2
MaxTokens == 5
MaxChunkSize == 3
MaxWinChunks == 10

----------------------------------------------------------------------------
(* Python string primitives *)

SP == " "
NL == "\n"

IsSpace(c) == c \in {SP, NL}

Min2(a, b) == IF a < b THEN a ELSE b
Max2(a, b) == IF a > b THEN a ELSE b

\* A slice or rfind bound as Python adjusts it: negative counts from the end,
\* then clamped to 0..n.
PyIdx(i, n) == IF i < 0 THEN Max2(i + n, 0) ELSE Min2(i, n)

\* s[i:j]
Slice(s, i, j) == SubSeq(s, PyIdx(i, Len(s)) + 1, PyIdx(j, Len(s)))

\* s[i:]
SliceFrom(s, i) == SubSeq(s, PyIdx(i, Len(s)) + 1, Len(s))

RECURSIVE LStrip(_)
LStrip(s) == IF s # <<>> /\ IsSpace(Head(s)) THEN LStrip(Tail(s)) ELSE s

RECURSIVE RStrip(_)
RStrip(s) ==
    IF s # <<>> /\ IsSpace(s[Len(s)]) THEN RStrip(SubSeq(s, 1, Len(s) - 1)) ELSE s

\* a strip that removes nothing
Unstripped(s) == s

\* s.strip()
Strip(s) == RStrip(LStrip(s))

\* not s or not s.strip()
IsBlank(s) == s = <<>> \/ Strip(s) = <<>>

\* s.find(sep, from): lowest 0-based i >= from with s[i:i+len(sep)] = sep, or -1
RECURSIVE Find(_, _, _)
Find(s, sep, from) ==
    IF from + Len(sep) > Len(s) THEN -1
    ELSE IF SubSeq(s, from + 1, from + Len(sep)) = sep THEN from
    ELSE Find(s, sep, from + 1)

\* s.split(sep), sep non-empty
RECURSIVE Split(_, _)
Split(s, sep) ==
    LET i == Find(s, sep, 0) IN
    IF i = -1 THEN <<s>>
    ELSE <<SubSeq(s, 1, i)>> \o Split(SubSeq(s, i + Len(sep) + 1, Len(s)), sep)

\* s.rfind(c, i, j) for a one-character c: highest index in the adjusted
\* range [i, j) holding c, or -1
RFind(s, c, i, j) ==
    LET lo == PyIdx(i, Len(s))
        hi == PyIdx(j, Len(s))
        hits == {k \in lo .. (hi - 1) : s[k + 1] = c}
    IN IF hits = {} THEN -1 ELSE CHOOSE k \in hits : \A m \in hits : m <= k

----------------------------------------------------------------------------
(* TextChunker *)

NoChunker == [chunk_size |-> -1, chunk_overlap |-> -1, separator |-> <<>>]

DefaultSeparator == <<NL, NL>>

\* a constructor whose test is off by one: chunk_overlap > chunk_size
InitAcceptsEqual(chunk_size, chunk_overlap) == ~(chunk_overlap > chunk_size)

\* TextChunker.__init__: the configuration is accepted unless
\* chunk_overlap >= chunk_size
InitAccepts(chunk_size, chunk_overlap) == ~(chunk_overlap >= chunk_size)

\* TextChunker._create_chunk
CreateChunk(content, index) ==
    [content |-> content, chunk_index |-> index, chunk_size |-> Len(content)]

\* the inputs: texts of up to MaxTokens tokens, and the size-bound scenario

RECURSIVE TextsOf(_)
TextsOf(n) ==
    IF n = 0 THEN {<<>>}
    ELSE LET shorter == TextsOf(n - 1) IN
         shorter \cup {t \o k : t \in shorter, k \in {<<"a">>, <<"b">>, <<SP>>, DefaultSeparator}}

Texts == TextsOf(MaxTokens)

ScenarioText ==
    <<"A", "B", "C", "D", "E", "F", "G", "H", "I", "J">> \o DefaultSeparator
    \o <<"K", "L", "M", "N", "O", "P", "Q", "R", "S", "T">>

ScenarioConfig == [chunk_size |-> 10, chunk_overlap |-> 3]

\* a chunker with a separator of its own: TextChunker(2, 0, "b")
CustomChunker == [chunk_size |-> 2, chunk_overlap |-> 0, separator |-> <<"b">>]

Configs ==
    {[chunk_size |-> cs, chunk_overlap |-> ov] :
        cs \in 1 .. MaxChunkSize, ov \in (-1) .. MaxChunkSize}
    \cup {ScenarioConfig}

ChunkerInit ==
    /\ ck = NoChunker
    /\ ck_error = FALSE
    /\ ctor_args = [chunk_size |-> 0, chunk_overlap |-> 0]
    /\ text = <<>>
    /\ pc = "new"
    /\ segments = <<>>
    /\ seg_i = 0
    /\ current_chunk = <<>>
    /\ chunks = <<>>
    /\ w_text = <<>>
    /\ start = 0
    /\ w_chunks = <<>>
    /\ chunk_index = 0

\* TextChunker(chunk_size, chunk_overlap, separator)
Construct(chunk_size, chunk_overlap, separator) ==
    /\ pc = "new"
    /\ ctor_args' = [chunk_size |-> chunk_size, chunk_overlap |-> chunk_overlap]
    /\ IF InitAccepts(chunk_size, chunk_overlap)
       THEN /\ ck' = [chunk_size |-> chunk_size, chunk_overlap |-> chunk_overlap,
                      separator |-> separator]
            /\ ck_error' = FALSE
            /\ pc' = "idle"
       ELSE /\ ck' = NoChunker
            /\ ck_error' = TRUE
            /\ pc' = "failed"
    /\ UNCHANGED <<text, segments, seg_i, current_chunk, chunks, w_text, start,
                   w_chunks, chunk_index>>
    /\ UNCHANGED <<storeVars, appVars, docVars, handleVars>>

\* split_text, up to the for loop
SplitText(t) ==
    /\ pc = "idle"
    /\ text' = t
    /\ chunks' = <<>>
    /\ current_chunk' = <<>>
    /\ IF IsBlank(t)
       THEN /\ pc' = "done"
            /\ segments' = <<>>
            /\ seg_i' = 0
       ELSE /\ pc' = "seg"
            /\ segments' = Split(t, ck.separator)
            /\ seg_i' = 1
    /\ UNCHANGED <<ck, ck_error, ctor_args, w_text, start, w_chunks, chunk_index>>
    /\ UNCHANGED <<storeVars, appVars, docVars, handleVars>>

\* current_chunk[-chunk_overlap:]
OverlapText(buf, chunk_overlap) == SliceFrom(buf, -chunk_overlap)

\* the buffer a flush leaves for the next segment
Seed(buf, segment, chunk_overlap) ==
    IF chunk_overlap > 0 /\ buf # <<>>
    THEN OverlapText(buf, chunk_overlap) \o <<SP>> \o segment
    ELSE segment

\* one iteration of split_text's for loop
SegStep ==
    /\ pc = "seg"
    /\ seg_i <= Len(segments)
    /\ LET segment == Strip(segments[seg_i])
           flushed == IF current_chunk # <<>>
                      THEN Append(chunks, CreateChunk(current_chunk, Len(chunks)))
                      ELSE chunks
           test_chunk == IF current_chunk # <<>>
                         THEN current_chunk \o ck.separator \o segment
                         ELSE segment
       IN
       IF segment = <<>>
       THEN /\ seg_i' = seg_i + 1
            /\ UNCHANGED <<pc, current_chunk, chunks, w_text, start, w_chunks,
                           chunk_index>>
       ELSE IF Len(segment) > ck.chunk_size
       THEN /\ chunks' = flushed
            /\ current_chunk' = <<>>
            /\ pc' = "win"
            /\ w_text' = segment
            /\ start' = 0
            /\ w_chunks' = <<>>
            /\ chunk_index' = Len(flushed)
            /\ UNCHANGED seg_i
       ELSE IF Len(test_chunk) <= ck.chunk_size
       THEN /\ current_chunk' = test_chunk
            /\ seg_i' = seg_i + 1
            /\ UNCHANGED <<pc, chunks, w_text, start, w_chunks, chunk_index>>
       ELSE /\ chunks' = flushed
            /\ current_chunk' = Seed(current_chunk, segment, ck.chunk_overlap)
            /\ seg_i' = seg_i + 1
            /\ UNCHANGED <<pc, w_text, start, w_chunks, chunk_index>>
    /\ UNCHANGED <<ck, ck_error, ctor_args, text, segments>>
    /\ UNCHANGED <<storeVars, appVars, docVars, handleVars>>

\* split_text after the for loop: the last flush and the return
SegDone ==
    /\ pc = "seg"
    /\ seg_i > Len(segments)
    /\ chunks' = IF Strip(current_chunk) # <<>>
                 THEN Append(chunks, CreateChunk(current_chunk, Len(chunks)))
                 ELSE chunks
    /\ pc' = "done"
    /\ UNCHANGED <<ck, ck_error, ctor_args, text, segments, seg_i, current_chunk,
                   w_text, start, w_chunks, chunk_index>>
    /\ UNCHANGED <<storeVars, appVars, docVars, handleVars>>

\* the window end _split_by_characters cuts at: the last space inside the
\* window when there is one after start, else start + chunk_size
WindowEnd(s, from, chunk_size) ==
    LET last_space == RFind(s, SP, from, from + chunk_size) IN
    IF last_space > from THEN last_space ELSE from + chunk_size

\* the next window start
NextStart(end, chunk_overlap) == end - chunk_overlap

\* _split_by_characters returns: chunks.extend(char_chunks); continue
ReturnToSegments(result) ==
    /\ chunks' = chunks \o result
    /\ pc' = "seg"
    /\ seg_i' = seg_i + 1
    /\ w_chunks' = <<>>
    /\ UNCHANGED <<ck, ck_error, ctor_args, text, segments, current_chunk, w_text,
                   start, chunk_index>>
    /\ UNCHANGED <<storeVars, appVars, docVars, handleVars>>

\* an iteration of the while loop that cuts a window and goes on
WinAdvance ==
    /\ pc = "win"
    /\ start < Len(w_text)
    /\ start + ck.chunk_size < Len(w_text)
    /\ Len(w_chunks) < MaxWinChunks
    /\ LET end == WindowEnd(w_text, start, ck.chunk_size)
           chunk_text == Strip(Slice(w_text, start, end))
       IN /\ IF chunk_text # <<>>
             THEN /\ w_chunks' = Append(w_chunks, CreateChunk(chunk_text, chunk_index))
                  /\ chunk_index' = chunk_index + 1
             ELSE UNCHANGED <<w_chunks, chunk_index>>
          /\ start' = NextStart(end, ck.chunk_overlap)
    /\ UNCHANGED <<ck, ck_error, ctor_args, text, pc, segments, seg_i, current_chunk,
                   chunks, w_text>>
    /\ UNCHANGED <<storeVars, appVars, docVars, handleVars>>

\* the iteration that reaches the end of the text: the last window and break
WinLast ==
    /\ pc = "win"
    /\ start < Len(w_text)
    /\ start + ck.chunk_size >= Len(w_text)
    /\ LET chunk_text == Strip(SliceFrom(w_text, start)) IN
       ReturnToSegments(IF chunk_text # <<>>
                        THEN Append(w_chunks, CreateChunk(chunk_text, chunk_index))
                        ELSE w_chunks)

\* the while condition fails
WinEnd ==
    /\ pc = "win"
    /\ ~(start < Len(w_text))
    /\ ReturnToSegments(w_chunks)

----------------------------------------------------------------------------
(* TextChunker as the pipeline calls it: split_text and chunk_documents as   *)
(* functions of their arguments, built from the same steps                  *)

\* a call that does not return within the model's bound
Hangs == [done |-> FALSE, chunks |-> <<>>]

Returns(result) == [done |-> TRUE, chunks |-> result]

\* the chunk of a window when its text is not empty
WindowChunk(chunk_text, index) ==
    IF chunk_text # <<>> THEN <<CreateChunk(chunk_text, index)>> ELSE <<>>

\* the chunks of a window followed by the chunks of the rest of the pass
ThenRest(head, rest) ==
    IF rest.done THEN Returns(head \o rest.chunks) ELSE Hangs

\* _split_by_characters(text, metadata, start_index) from window start
\* `from` on, with `fuel` iterations left
RECURSIVE SplitByCharacters(_, _, _, _, _)
SplitByCharacters(config, s, from, index, fuel) ==
    IF ~(from < Len(s)) THEN Returns(<<>>)
    ELSE IF from + config.chunk_size >= Len(s)
    THEN Returns(WindowChunk(Strip(SliceFrom(s, from)), index))
    ELSE IF fuel = 0 THEN Hangs
    ELSE ThenRest(
            WindowChunk(Strip(Slice(s, from, WindowEnd(s, from, config.chunk_size))),
                        index),
            SplitByCharacters(
                config, s,
                NextStart(WindowEnd(s, from, config.chunk_size), config.chunk_overlap),
                IF Strip(Slice(s, from, WindowEnd(s, from, config.chunk_size))) # <<>>
                THEN index + 1 ELSE index,
                fuel - 1))

\* the chunk list after the running buffer is saved, when there is one
Flushed(acc, cur) ==
    IF cur # <<>> THEN Append(acc, CreateChunk(cur, Len(acc))) ELSE acc

\* current_chunk + separator + segment, or the segment alone
TestChunk(cur, segment, separator) ==
    IF cur # <<>> THEN cur \o separator \o segment ELSE segment

RECURSIVE SegmentLoop(_, _, _, _, _)

\* chunks.extend(char_chunks); continue
AfterWindows(config, segs, i, flushed, windows) ==
    IF windows.done
    THEN SegmentLoop(config, segs, i + 1, <<>>, flushed \o windows.chunks)
    ELSE Hangs

\* split_text's for loop from segment i on, with the running buffer cur and
\* the chunks acc made so far, and the flush after the loop
SegmentLoop(config, segs, i, cur, acc) ==
    IF i > Len(segs)
    THEN Returns(IF Strip(cur) # <<>> THEN Append(acc, CreateChunk(cur, Len(acc)))
                 ELSE acc)
    ELSE IF Strip(segs[i]) = <<>>
    THEN SegmentLoop(config, segs, i + 1, cur, acc)
    ELSE IF Len(Strip(segs[i])) > config.chunk_size
    THEN AfterWindows(config, segs, i, Flushed(acc, cur),
                      SplitByCharacters(config, Strip(segs[i]), 0,
                                        Len(Flushed(acc, cur)), MaxWinChunks))
    ELSE IF Len(TestChunk(cur, Strip(segs[i]), config.separator)) <= config.chunk_size
    THEN SegmentLoop(config, segs, i + 1,
                     TestChunk(cur, Strip(segs[i]), config.separator), acc)
    ELSE SegmentLoop(config, segs, i + 1,
                     Seed(cur, Strip(segs[i]), config.chunk_overlap),
                     Flushed(acc, cur))

\* split_text(text): [done, chunks]
SplitTextResult(config, t) ==
    IF IsBlank(t) THEN Returns(<<>>)
    ELSE SegmentLoop(config, Split(t, config.separator), 1, <<>>, <<>>)

----------------------------------------------------------------------------
(* Bounds and inputs of the store, retriever and pipeline *)

MaxBatch == 2
MaxEntries == 2
MaxGivenIds == 1
MaxRequests == 3
MaxTopK == 2
ConfigTopK == 1
\* the query requests of the first caller, where a second caller shares the
\* pipeline
MaxQueries == 2

\* an optional argument: None, or a value
None == [given |-> FALSE, v |-> <<>>]
Some(x) == [given |-> TRUE, v |-> x]

SeqsUpTo(S, n) == UNION {[1 .. k -> S] : k \in 0 .. n}

\* chunk-like objects: a content and a metadata mapping of scalars
ChunkX == [content |-> <<"x">>, metadata |-> [source |-> "s1", filename |-> "f1"]]
ChunkY == [content |-> <<"y", "-", "-", "-", "z">>,
           metadata |-> [filename |-> "a---b.txt"]]
ChunkZ == [content |-> <<"z">>, metadata |-> [kind |-> "note"]]

\* a float of an embedding: whole + tiny * delta, where delta is a positive
\* float so small that delta * delta is below half the spacing of the floats
\* at 1.0 (2^-53), e.g. delta = 1e-9; a float of the model is whole (tiny = 0)
\* or tiny (whole = 0)
Num(n) == [whole |-> n, tiny |-> 0]

Vectors == {<<Num(0)>>, <<Num(1)>>, <<Num(0), Num(1)>>}

\* the batches add_documents is called with: a batch of more than one chunk
\* (or embedding) begins with ChunkX (or the vector [0.0]); the vector
\* [delta] comes after [0.0]
ChunkBatches ==
    {b \in SeqsUpTo({ChunkX, ChunkY, ChunkZ}, MaxBatch) : Len(b) > 1 => b[1] = ChunkX}

EmbeddingBatches ==
    {b \in SeqsUpTo(Vectors \cup {<<[whole |-> 0, tiny |-> 1]>>}, MaxBatch) :
        /\ Len(b) > 1 => b[1] = <<Num(0)>>
        /\ Len(b) = 1 => b[1] \in Vectors}

GivenIds == {<<"id", n, <<>>>> : n \in 1 .. MaxGivenIds}

Queries == {<<>>, <<SP>>, <<"a">>, <<"b">>}

\* the texts the pipeline indexes
PipelineTexts == {<<"a">>, <<"b">>, <<"a", NL, NL, "b">>, <<SP>>}

TopKArgs == {None} \cup {Some(k) : k \in 0 .. MaxTopK}

Filters == {None, Some([source |-> "s1"])}

\* a score or a threshold, as a fraction with a positive denominator
Frac(n, d) == [num |-> n, den |-> d]

----------------------------------------------------------------------------
(* The backend collection (chromadb), as VectorStore uses it *)

RECURSIVE SumSq(_, _, _)
SumSq(u, v, i) ==
    IF i > Len(u) THEN 0
    ELSE (u[i] - v[i]) * (u[i] - v[i]) + SumSq(u, v, i + 1)

\* the collection's distance (squared L2, its default space), a float
\* whole + tiny * delta^2: the backend computes it in single precision, where
\* a sum with a whole part keeps nothing of the tiny parts
Distance(u, v) ==
    LET w == SumSq([i \in 1 .. Len(u) |-> u[i].whole],
                   [i \in 1 .. Len(v) |-> v[i].whole], 1)
    IN [whole |-> w,
        tiny |-> IF w > 0 THEN 0
                 ELSE SumSq([i \in 1 .. Len(u) |-> u[i].tiny],
                            [i \in 1 .. Len(v) |-> v[i].tiny], 1)]

\* d1 < d2 on distances
DistLess(d1, d2) ==
    d1.whole < d2.whole \/ (d1.whole = d2.whole /\ d1.tiny < d2.tiny)

IdsOf(c) == {c[i].id : i \in 1 .. Len(c)}

NoDuplicates(ids) == \A i, j \in 1 .. Len(ids) : ids[i] = ids[j] => i = j

\* a backend that accepts vectors of any length in one collection
AddIsValidAnyLength(c, ids, documents, embeddings, metadatas) ==
    /\ Len(ids) > 0
    /\ Len(documents) = Len(ids)
    /\ Len(embeddings) = Len(ids)
    /\ Len(metadatas) = Len(ids)
    /\ NoDuplicates(ids)
    /\ \A i \in 1 .. Len(embeddings) : Len(embeddings[i]) > 0

\* what collection.add validates before it writes anything
AddIsValid(c, ids, documents, embeddings, metadatas) ==
    /\ Len(ids) > 0
    /\ Len(documents) = Len(ids)
    /\ Len(embeddings) = Len(ids)
    /\ Len(metadatas) = Len(ids)
    /\ NoDuplicates(ids)
    /\ \A i \in 1 .. Len(embeddings) :
          /\ Len(embeddings[i]) > 0
          /\ Len(embeddings[i]) = Len(embeddings[1])
          /\ c # <<>> => Len(embeddings[i]) = Len(c[1].embedding)

\* collection.add writes the records whose id the collection does not hold
\* yet, in batch order; a record whose id exists is skipped
RECURSIVE AddRecords(_, _, _, _, _, _)
AddRecords(c, ids, documents, embeddings, metadatas, i) ==
    IF i > Len(ids) THEN c
    ELSE AddRecords(
            IF ids[i] \in IdsOf(c) THEN c
            ELSE Append(c, [id |-> ids[i], document |-> documents[i],
                            embedding |-> embeddings[i], metadata |-> metadatas[i]]),
            ids, documents, embeddings, metadatas, i + 1)

\* collection.add(ids, documents, embeddings, metadatas)
CollectionAdd(c, ids, documents, embeddings, metadatas) ==
    IF AddIsValid(c, ids, documents, embeddings, metadatas)
    THEN [ok |-> TRUE, coll |-> AddRecords(c, ids, documents, embeddings, metadatas, 1)]
    ELSE [ok |-> FALSE, coll |-> c]

\* a where filter: exact match on every key it names
Matches(metadata, where) ==
    \/ ~where.given
    \/ \A k \in DOMAIN where.v : k \in DOMAIN metadata /\ metadata[k] = where.v[k]

\* the n nearest of the entries at positions idxs, nearest first, equal
\* distances in insertion order
RECURSIVE Nearest(_, _, _, _)
Nearest(c, q, idxs, n) ==
    IF n <= 0 \/ idxs = {} THEN <<>>
    ELSE LET d(i) == Distance(q, c[i].embedding)
             best == CHOOSE i \in idxs :
                        \A j \in idxs : DistLess(d(i), d(j)) \/ (d(i) = d(j) /\ i <= j)
         IN <<[document |-> c[best].document, metadata |-> c[best].metadata,
               distance |-> d(best)]>>
            \o Nearest(c, q, idxs \ {best}, n - 1)

\* collection.query(query_embeddings=[q], n_results, where): it rejects a
\* non-positive n_results and a query of another dimension than the entries
CollectionQuery(c, q, n_results, where) ==
    IF n_results <= 0 \/ (c # <<>> /\ Len(q) # Len(c[1].embedding))
    THEN [ok |-> FALSE, hits |-> <<>>]
    ELSE [ok |-> TRUE,
          hits |-> Nearest(c, q, {i \in 1 .. Len(c) : Matches(c[i].metadata, where)},
                           n_results)]

----------------------------------------------------------------------------
(* VectorStore *)

\* a score that grows with the distance: dist / (1 + dist)
ScoreRising(dist) == Frac(dist.whole, 1 + dist.whole)

\* score = 1 / (1 + dist) in float arithmetic: the sum 1 + dist is rounded
\* to a float, which drops a part of dist below half the spacing of the
\* floats at 1.0, so a tiny distance has the score of distance 0; the
\* fraction stands for the float nearest to it
Score(dist) == Frac(1, 1 + dist.whole)

\* the auto-generated id f"doc_{i}_{hash(chunk.content)}"; the hash is taken
\* to separate the contents of the model
AutoIds(cs) == [i \in 1 .. Len(cs) |-> <<"doc", i - 1, cs[i].content>>]

\* Python's None as a metadata value, and str(None)
PyNone == "<None>"

\* the metadata as handed to the backend: scalar values are kept as they
\* are, any other value v becomes str(v); None, under "extension", is the
\* only non-scalar value the loader writes
BackendMetadata(chunk) ==
    [k \in DOMAIN chunk.metadata |->
        IF k = "extension" /\ chunk.metadata[k] = PyNone THEN "None"
        ELSE chunk.metadata[k]]

\* the first test with "and" for "or"
NothingToAddBoth(cs, embeddings) == cs = <<>> /\ embeddings = <<>>

\* add_documents' first test: not chunks or not embeddings
NothingToAdd(cs, embeddings) == cs = <<>> \/ embeddings = <<>>

\* VectorStore.add_documents(chunks, embeddings, ids): the outcome
\* [raised, count, coll]
AddDocumentsResult(c, cs, embeddings, ids) ==
    IF NothingToAdd(cs, embeddings)
    THEN [raised |-> FALSE, count |-> 0, coll |-> c]
    ELSE IF Len(cs) # Len(embeddings)
    THEN [raised |-> TRUE, count |-> 0, coll |-> c]
    ELSE LET the_ids == IF ids.given THEN ids.v ELSE AutoIds(cs)
             documents == [i \in 1 .. Len(cs) |-> cs[i].content]
             metadatas == [i \in 1 .. Len(cs) |-> BackendMetadata(cs[i])]
             r == CollectionAdd(c, the_ids, documents, embeddings, metadatas)
         IN IF r.ok
            THEN [raised |-> FALSE, count |-> Len(cs), coll |-> r.coll]
            ELSE [raised |-> TRUE, count |-> 0, coll |-> c]

\* the SearchResult objects search builds from the backend's hits
SearchResults(hits) ==
    [i \in 1 .. Len(hits) |->
        [content |-> hits[i].document, metadata |-> hits[i].metadata,
         distance |-> hits[i].distance, score |-> Score(hits[i].distance)]]

\* VectorStore.search(query_embedding, top_k, where): [raised, results]
Search(c, query_embedding, k, where) ==
    LET r == CollectionQuery(c, query_embedding, k, where) IN
    IF r.ok THEN [raised |-> FALSE, results |-> SearchResults(r.hits)]
    ELSE [raised |-> TRUE, results |-> <<>>]

\* a clear that deletes nothing
\* VectorStore.clear(): the collection is deleted and created again, empty
ClearedCollection(c) == <<>>

----------------------------------------------------------------------------
(* Embedder *)

RECURSIVE CountOf(_, _)
CountOf(t, ch) ==
    IF t = <<>> THEN 0 ELSE (IF Head(t) = ch THEN 1 ELSE 0) + CountOf(Tail(t), ch)

\* the embedding model: a fixed function from texts to vectors of one
\* dimension
Encode(t) == <<Num(CountOf(t, "a"))>>

\* Embedder.embed_text raises ValueError on a blank text
EmbedTextRaises(t) == IsBlank(t)

\* an embed_texts that also drops the texts of one character
RECURSIVE EmbedTextsLong(_)
EmbedTextsLong(texts) ==
    IF texts = <<>> THEN <<>>
    ELSE (IF IsBlank(Head(texts)) \/ Len(Head(texts)) < 2
          THEN <<>> ELSE <<Encode(Head(texts))>>)
         \o EmbedTextsLong(Tail(texts))

\* Embedder.embed_texts: the blank texts are dropped, the others encoded
RECURSIVE EmbedTexts(_)
EmbedTexts(texts) ==
    IF texts = <<>> THEN <<>>
    ELSE (IF IsBlank(Head(texts)) THEN <<>> ELSE <<Encode(Head(texts))>>)
         \o EmbedTexts(Tail(texts))

----------------------------------------------------------------------------
(* Retriever *)

\* a >= b on fractions
FracGeq(a, b) == a.num * b.den >= b.num * a.den

\* a > b on fractions
FracGt(a, b) == a.num * b.den > b.num * a.den

\* the threshold test with > for >=
KeepsStrictly(score, threshold) == FracGt(score, threshold)

\* retrieve's test of a search result against the threshold
Keeps(score, threshold) == FracGeq(score, threshold)

\* a guard that tests only "not query"
QueryIsEmpty(query) == query = <<>>

\* retrieve's guard: not query or not query.strip()
QueryIsBlank(query) == IsBlank(query)

\* top_k or default
TopKOr(k, default) == IF k.given /\ k.v # 0 THEN k.v ELSE default

RetrievalResult(sr) ==
    [content |-> sr.content, score |-> sr.score, metadata |-> sr.metadata]

\* retrieve's loop over the search results
RECURSIVE FilterResults(_, _)
FilterResults(srs, threshold) ==
    IF srs = <<>> THEN <<>>
    ELSE (IF Keeps(Head(srs).score, threshold)
          THEN <<RetrievalResult(Head(srs))>> ELSE <<>>)
         \o FilterResults(Tail(srs), threshold)

\* retrieve after its search call returned or raised
RetrieveAfterSearch(sr, threshold) ==
    IF sr.raised
    THEN [raised |-> TRUE, results |-> <<>>, embeds |-> 1, searches |-> 1,
          search_out |-> <<>>]
    ELSE [raised |-> FALSE, results |-> FilterResults(sr.results, threshold),
          embeds |-> 1, searches |-> 1, search_out |-> sr.results]

\* Retriever.retrieve(query, top_k, filter_metadata): the outcome, with the
\* calls it made
RetrieveResult(c, threshold, default_k, query, k, where) ==
    IF QueryIsBlank(query)
    THEN [raised |-> FALSE, results |-> <<>>, embeds |-> 0, searches |-> 0,
          search_out |-> <<>>]
    ELSE IF EmbedTextRaises(query)
    THEN [raised |-> TRUE, results |-> <<>>, embeds |-> 1, searches |-> 0,
          search_out |-> <<>>]
    ELSE RetrieveAfterSearch(Search(c, Encode(query), TopKOr(k, default_k), where),
                             threshold)

\* the default label of a result without "filename" (and without "source")
UnknownSource == "Bilinmeyen"

MetadataGet(metadata, key, default) ==
    IF key \in DOMAIN metadata THEN metadata[key] ELSE default

\* the characters of the labels the model's metadata holds
Chars(label) ==
    CASE label = "s1" -> <<"s", "1">>
      [] label = "f1" -> <<"f", "1">>
      [] label = "f2" -> <<"f", "2">>
      [] label = "a---b.txt" -> <<"a", "-", "-", "-", "b", ".", "t", "x", "t">>
      [] label = "s2" -> <<"s", "2">>
      [] label = "direct_input" ->
            <<"d", "i", "r", "e", "c", "t", "_", "i", "n", "p", "u", "t">>
      [] label = "manual_input" ->
            <<"m", "a", "n", "u", "a", "l", "_", "i", "n", "p", "u", "t">>
      [] label = UnknownSource ->
            <<"B", "i", "l", "i", "n", "m", "e", "y", "e", "n">>
      [] label = "unknown" -> <<"u", "n", "k", "n", "o", "w", "n">>

DigitChars == <<"0", "1", "2", "3", "4", "5", "6", "7", "8", "9">>

\* str(i) of a natural number
RECURSIVE StrOfInt(_)
StrOfInt(i) ==
    IF i < 10 THEN <<DigitChars[i + 1]>>
    ELSE StrOfInt(i \div 10) \o <<DigitChars[(i % 10) + 1]>>

\* sep.join(parts)
RECURSIVE Join(_, _)
Join(parts, sep) ==
    IF parts = <<>> THEN <<>>
    ELSE IF Len(parts) = 1 THEN parts[1]
    ELSE parts[1] \o sep \o Join(Tail(parts), sep)

\* the default context_separator "\n\n---\n\n"
ContextSeparator == <<NL, NL, "-", "-", "-", NL, NL>>

\* "[Kaynak "
HeaderOpen == <<"[", "K", "a", "y", "n", "a", "k", SP>>

\* a part numbered from 0
ContextPartFromZero(i, result) ==
    HeaderOpen \o StrOfInt(i - 1) \o <<":", SP>>
    \o Chars(MetadataGet(result.metadata, "filename", UnknownSource))
    \o <<"]", NL>> \o result.content

\* f"[Kaynak {i}: {source}]\n{result.content}"
ContextPart(i, result) ==
    HeaderOpen \o StrOfInt(i) \o <<":", SP>>
    \o Chars(MetadataGet(result.metadata, "filename", UnknownSource))
    \o <<"]", NL>> \o result.content

\* retrieve_with_context after its retrieve call: "" without results, else
\* the parts joined by the separator
ContextOf(results, context_separator) ==
    IF results = <<>> THEN <<>>
    ELSE Join([i \in 1 .. Len(results) |-> ContextPart(i, results[i])],
              context_separator)

\* a loop that appends every label, repeated or not
RECURSIVE SourcesOfAll(_, _)
SourcesOfAll(results, sources) ==
    IF results = <<>> THEN sources
    ELSE SourcesOfAll(Tail(results),
                      Append(sources,
                             MetadataGet(Head(results).metadata, "source",
                                         MetadataGet(Head(results).metadata,
                                                     "filename", UnknownSource))))

\* get_sources' loop: the labels, first occurrences only
RECURSIVE SourcesOf(_, _)
SourcesOf(results, sources) ==
    IF results = <<>> THEN sources
    ELSE LET m == Head(results).metadata
             source == MetadataGet(m, "source",
                                   MetadataGet(m, "filename", UnknownSource))
         IN SourcesOf(Tail(results),
                      IF \E i \in 1 .. Len(sources) : sources[i] = source
                      THEN sources ELSE Append(sources, source))

\* retrieve_with_context after its retrieve call returned or raised
ContextAfterRetrieve(r, context_separator) ==
    [raised |-> r.raised,
     context |-> IF r.raised THEN <<>> ELSE ContextOf(r.results, context_separator),
     embeds |-> r.embeds, searches |-> r.searches, search_out |-> r.search_out]

\* Retriever.retrieve_with_context(query, top_k, context_separator): the
\* outcome, with the calls it made
RetrieveWithContextResult(c, threshold, default_k, query, k, context_separator) ==
    ContextAfterRetrieve(RetrieveResult(c, threshold, default_k, query, k, None),
                         context_separator)

\* get_sources after its retrieve call returned or raised
SourcesAfterRetrieve(r) ==
    [raised |-> r.raised,
     sources |-> IF r.raised THEN <<>> ELSE SourcesOf(r.results, <<>>),
     embeds |-> r.embeds, searches |-> r.searches, search_out |-> r.search_out]

\* Retriever.get_sources(query, top_k): the outcome, with the calls it made
GetSourcesResult(c, threshold, default_k, query, k) ==
    SourcesAfterRetrieve(RetrieveResult(c, threshold, default_k, query, k, None))

----------------------------------------------------------------------------
(* Generator and RAGPipeline *)

\* "Üzgünüm, bu konuda bilgi bulamadım."
NoInfoAnswer == [kind |-> "no_info", question |-> <<>>, context |-> <<>>]

\* a fallback that answers from the last part of the context
FallbackResponse(question, context) ==
    IF context = <<>> THEN NoInfoAnswer
    ELSE LET first == Strip(Split(context, <<"-", "-", "-">>)[1])
             lines == Split(first, <<NL>>)
             first_chunk == IF Find(first, SubSeq(HeaderOpen, 1, 7), 0) # -1
                            THEN Strip(Join(Tail(lines), <<NL>>))
                            ELSE first
         IN [kind |-> "fallback", question |-> <<>>,
             context |-> Slice(first_chunk, 0, 500)]

\* Generator.generate(question, context): the LLM's answer to the prompt made
\* of the question and the context, or the fallback when there is no client
\* or the LLM call raises
Generate(question, context, llm_up) ==
    IF llm_up
    THEN [kind |-> IF IsBlank(context) THEN "chat" ELSE "llm",
          question |-> question, context |-> context]
    ELSE FallbackResponse(question, context)

\* a query that never takes the early return
NeverShortCircuits(retrieved) == FALSE

\* query's test after the first retrieve: not retrieved
ShortCircuits(retrieved) == retrieved = <<>>

NoResponse == [answer |-> NoInfoAnswer, sources |-> <<>>, retrieved_chunks |-> <<>>]

\* the clock reading DocumentLoader.load_text stores: one value in the model
LoadedAt == "now"

\* DocumentLoader.load_text(text, source)
LoadText(t, source) ==
    [content |-> t,
     metadata |-> [source |-> source, filename |-> source, extension |-> PyNone,
                   loaded_at |-> LoadedAt, char_count |-> Len(t),
                   line_count |-> CountOf(t, NL) + 1]]

\* {**base_metadata, "chunk_index": index, "chunk_size": len(content)}
ChunkMetadata(base_metadata, chunk) ==
    [k \in DOMAIN base_metadata \cup {"chunk_index", "chunk_size"} |->
        IF k = "chunk_index" THEN chunk.chunk_index
        ELSE IF k = "chunk_size" THEN chunk.chunk_size
        ELSE base_metadata[k]]

\* metadata["doc_index"] = doc_idx
WithDocIndex(metadata, doc_idx) ==
    [k \in DOMAIN metadata \cup {"doc_index"} |->
        IF k = "doc_index" THEN doc_idx ELSE metadata[k]]

\* f"{source}_chunk_{index}", source = base_metadata.get("source", "unknown")
ChunkId(base_metadata, index) ==
    Chars(MetadataGet(base_metadata, "source", "unknown"))
    \o <<"_", "c", "h", "u", "n", "k", "_">> \o StrOfInt(index)

\* the Chunk objects split_text makes of a document
DocumentChunks(split, metadata) ==
    [done |-> split.done,
     chunks |-> [i \in 1 .. Len(split.chunks) |->
                    [content |-> split.chunks[i].content,
                     metadata |-> ChunkMetadata(metadata, split.chunks[i]),
                     chunk_id |-> ChunkId(metadata, split.chunks[i].chunk_index)]]]

\* the pipeline's chunker: TextChunker(chunk_size, chunk_overlap)
PipelineChunker == [chunk_size |-> 2, chunk_overlap |-> 1, separator |-> DefaultSeparator]

\* TextChunker.chunk_documents(documents), from document doc_idx (0-based) on
RECURSIVE ChunkDocuments(_, _, _)
ChunkDocuments(config, documents, doc_idx) ==
    IF doc_idx >= Len(documents) THEN Returns(<<>>)
    ELSE ThenRest(
            DocumentChunks(SplitTextResult(config, documents[doc_idx + 1].content),
                           WithDocIndex(documents[doc_idx + 1].metadata, doc_idx)).chunks,
            IF SplitTextResult(config, documents[doc_idx + 1].content).done
            THEN ChunkDocuments(config, documents, doc_idx + 1)
            ELSE Hangs)

\* no chunk_documents call was made
DocsIdle ==
    /\ passed_docs = <<>>
    /\ caller_docs = <<>>
    /\ all_chunks = <<>>

\* the documents the model hands to chunk_documents: Document objects with
\* and without a source in their metadata
DocValues ==
    {[content |-> c, metadata |-> m] :
        c \in {<<"a">>, <<"a", "b", "a">>, <<SP>>},
        m \in {[source |-> "s1"], [source |-> "s2"], [filename |-> "f1"]}}

\* doc.metadata after chunk_documents: metadata["doc_index"] = doc_idx is
\* written to the document's own mapping
DocsAfterChunking(documents) ==
    [i \in 1 .. Len(documents) |->
        [content |-> documents[i].content,
         metadata |-> WithDocIndex(documents[i].metadata, i - 1)]]

\* TextChunker.chunk_documents(documents), called on an idle chunker
ChunkDocumentsCall(documents) ==
    /\ pc = "idle"
    /\ ChunkDocuments(ck, documents, 0).done
    /\ passed_docs' = documents
    /\ caller_docs' = DocsAfterChunking(documents)
    /\ all_chunks' = ChunkDocuments(ck, documents, 0).chunks
    /\ pc' = "chunked"
    /\ UNCHANGED <<ck, ck_error, ctor_args, text, segments, seg_i, current_chunk,
                   chunks, w_text, start, w_chunks, chunk_index>>
    /\ UNCHANGED <<storeVars, appVars, handleVars>>

ContentsOf(cs) == [i \in 1 .. Len(cs) |-> cs[i].content]

\* index_documents and add_document from the chunks on: embed_texts, then
\* add_documents
IndexChunks(c, cs) == AddDocumentsResult(c, cs, EmbedTexts(ContentsOf(cs)), None)

\* after chunk_documents: index_documents returns 0 without chunks
\* (checks_empty); otherwise the chunks are embedded and added
IndexAfterChunking(c, chunked, checks_empty) ==
    IF ~chunked.done
    THEN [done |-> FALSE, raised |-> FALSE, count |-> 0, coll |-> c,
          embeds |-> 0, adds |-> 0]
    ELSE IF checks_empty /\ chunked.chunks = <<>>
    THEN [done |-> TRUE, raised |-> FALSE, count |-> 0, coll |-> c,
          embeds |-> 0, adds |-> 0]
    ELSE [done |-> TRUE,
          raised |-> IndexChunks(c, chunked.chunks).raised,
          count |-> IndexChunks(c, chunked.chunks).count,
          coll |-> IndexChunks(c, chunked.chunks).coll,
          embeds |-> 1, adds |-> 1]

\* an index_documents that returns on an empty document list before it clears
ReturnBeforeClear(c, documents, clear_existing) ==
    IF documents = <<>>
    THEN [done |-> TRUE, raised |-> FALSE, count |-> 0, coll |-> c,
          embeds |-> 0, adds |-> 0]
    ELSE IndexAfterChunking(IF clear_existing THEN ClearedCollection(c) ELSE c,
                            ChunkDocuments(PipelineChunker, documents, 0), TRUE)

\* RAGPipeline.index_documents(source, clear_existing), documents being what
\* the loader made of the source: [done, raised, count, coll] and the numbers
\* of embed_texts and add_documents calls made
IndexDocumentsResult(c, documents, clear_existing) ==
    IF documents = <<>>
    THEN [done |-> TRUE, raised |-> FALSE, count |-> 0,
          coll |-> IF clear_existing THEN ClearedCollection(c) ELSE c,
          embeds |-> 0, adds |-> 0]
    ELSE IndexAfterChunking(IF clear_existing THEN ClearedCollection(c) ELSE c,
                            ChunkDocuments(PipelineChunker, documents, 0), TRUE)

\* RAGPipeline.add_document(text, source_name): [done, raised, count, coll]
AddDocumentResult(c, t, source_name) ==
    IndexAfterChunking(c, ChunkDocuments(PipelineChunker,
                                         <<LoadText(t, source_name)>>, 0), FALSE)

\* query hands its k to retrieve_with_context and get_sources: top_k=k
ContextTopK(k) == k

\* query after its calls of retrieve (r1), retrieve_with_context (r2) and
\* get_sources (r3); a call the code does not reach is not counted
QueryOutcome(r1, r2, r3, question, return_sources, llm_up) ==
    IF r1.raised
    THEN [raised |-> TRUE, response |-> NoResponse, embeds |-> r1.embeds,
          searches |-> r1.searches, gens |-> 0, search_out |-> r1.search_out]
    ELSE IF ShortCircuits(r1.results)
    THEN [raised |-> FALSE,
          response |-> [answer |-> NoInfoAnswer, sources |-> <<>>,
                        retrieved_chunks |-> <<>>],
          embeds |-> r1.embeds, searches |-> r1.searches, gens |-> 0,
          search_out |-> r1.search_out]
    ELSE IF r2.raised
    THEN [raised |-> TRUE, response |-> NoResponse,
          embeds |-> r1.embeds + r2.embeds, searches |-> r1.searches + r2.searches,
          gens |-> 0, search_out |-> r1.search_out]
    ELSE IF return_sources /\ r3.raised
    THEN [raised |-> TRUE, response |-> NoResponse,
          embeds |-> r1.embeds + r2.embeds + r3.embeds,
          searches |-> r1.searches + r2.searches + r3.searches,
          gens |-> 1, search_out |-> r1.search_out]
    ELSE [raised |-> FALSE,
          response |-> [answer |-> Generate(question, r2.context, llm_up),
                        sources |-> IF return_sources THEN r3.sources ELSE <<>>,
                        retrieved_chunks |-> r1.results],
          embeds |-> r1.embeds + r2.embeds
                     + (IF return_sources THEN r3.embeds ELSE 0),
          searches |-> r1.searches + r2.searches
                       + (IF return_sources THEN r3.searches ELSE 0),
          gens |-> 1, search_out |-> r1.search_out]

\* k = top_k or self.config["top_k"]
QueryTopK(k, default_k) == Some(TopKOr(k, default_k))

\* RAGPipeline.query(question, top_k, return_sources): the outcome
\* [raised, response, embeds, searches, gens, search_out]
QueryResult(c, threshold, default_k, question, k, return_sources, llm_up) ==
    QueryOutcome(
        RetrieveResult(c, threshold, default_k, question,
                       QueryTopK(k, default_k), None),
        RetrieveWithContextResult(c, threshold, default_k, question,
                                  ContextTopK(QueryTopK(k, default_k)),
                                  ContextSeparator),
        GetSourcesResult(c, threshold, default_k, question,
                         ContextTopK(QueryTopK(k, default_k))),
        question, return_sources, llm_up)

----------------------------------------------------------------------------
(* The store, retriever and pipeline as a state machine *)

NoArgs == [none |-> TRUE]

\* the caller holds no outcome
Quiet ==
    /\ op = "none"
    /\ args = NoArgs
    /\ pre_coll = <<>>
    /\ raised = FALSE
    /\ ret_count = 0
    /\ ret_results = <<>>
    /\ ret_response = NoResponse
    /\ embed_calls = 0
    /\ search_calls = 0
    /\ gen_calls = 0
    /\ add_calls = 0
    /\ search_out = <<>>
    /\ ret_context = <<>>
    /\ ret_sources = <<>>

\* VectorStore() on a fresh directory, Retriever(top_k, score_threshold)
StoreInit ==
    /\ coll = <<>>
    /\ score_threshold \in {Frac(0, 1), Frac(1, 1)}
    /\ top_k = ConfigTopK
    /\ Quiet

\* the store as the chunker's runs leave it
StoreIdle ==
    /\ coll = <<>>
    /\ score_threshold = Frac(0, 1)
    /\ top_k = ConfigTopK
    /\ Quiet

\* VectorStore.add_documents(chunks, embeddings, ids)
AddDocuments(cs, embeddings, ids) ==
    /\ op = "none"
    /\ LET r == AddDocumentsResult(coll, cs, embeddings, ids) IN
       /\ Len(r.coll) <= MaxEntries
       /\ coll' = r.coll
       /\ raised' = r.raised
       /\ ret_count' = r.count
    /\ op' = "add"
    /\ args' = [chunks |-> cs, embeddings |-> embeddings, ids |-> ids]
    /\ pre_coll' = coll
    /\ UNCHANGED <<score_threshold, top_k, ret_results, ret_response, embed_calls,
                   search_calls, gen_calls, add_calls, search_out, ret_context, ret_sources>>
    /\ UNCHANGED <<chunkerVars, appVars, docVars, handleVars>>

\* Retriever.retrieve(query, top_k, filter_metadata)
Retrieve(query, k, where) ==
    /\ op = "none"
    /\ LET r == RetrieveResult(coll, score_threshold, top_k, query, k, where) IN
       /\ raised' = r.raised
       /\ ret_results' = r.results
       /\ embed_calls' = r.embeds
       /\ search_calls' = r.searches
       /\ search_out' = r.search_out
    /\ op' = "retrieve"
    /\ args' = [query |-> query, top_k |-> k, where |-> where]
    /\ pre_coll' = coll
    /\ UNCHANGED <<coll, score_threshold, top_k, ret_count, ret_response, gen_calls, add_calls,
                   ret_context, ret_sources>>
    /\ UNCHANGED <<chunkerVars, appVars, docVars, handleVars>>

\* RAGPipeline.query(question, top_k, return_sources)
Query(question, k, return_sources, llm_up) ==
    /\ op = "none"
    /\ LET r == QueryResult(coll, score_threshold, top_k, question, k,
                            return_sources, llm_up) IN
       /\ raised' = r.raised
       /\ ret_response' = r.response
       /\ embed_calls' = r.embeds
       /\ search_calls' = r.searches
       /\ gen_calls' = r.gens
       /\ UNCHANGED add_calls
       /\ search_out' = r.search_out
    /\ op' = "query"
    /\ args' = [question |-> question, top_k |-> k,
                return_sources |-> return_sources, llm_up |-> llm_up]
    /\ pre_coll' = coll
    /\ UNCHANGED <<coll, score_threshold, top_k, ret_count, ret_results,
                   ret_context, ret_sources>>
    /\ UNCHANGED <<chunkerVars, appVars, docVars, handleVars>>

\* VectorStore.search(query_embedding, top_k, where)
SearchCall(query_embedding, k, where) ==
    /\ op = "none"
    /\ LET r == Search(coll, query_embedding, k, where) IN
       /\ raised' = r.raised
       /\ search_out' = r.results
    /\ search_calls' = 1
    /\ op' = "search"
    /\ args' = [query_embedding |-> query_embedding, top_k |-> k, where |-> where]
    /\ pre_coll' = coll
    /\ UNCHANGED <<coll, score_threshold, top_k, ret_count, ret_results, ret_response,
                   embed_calls, gen_calls, add_calls, ret_context, ret_sources>>
    /\ UNCHANGED <<chunkerVars, appVars, docVars, handleVars>>

\* Retriever.retrieve_with_context(query, top_k)
RetrieveWithContext(query, k) ==
    /\ op = "none"
    /\ LET r == RetrieveWithContextResult(coll, score_threshold, top_k, query, k,
                                          ContextSeparator) IN
       /\ raised' = r.raised
       /\ ret_context' = r.context
       /\ embed_calls' = r.embeds
       /\ search_calls' = r.searches
       /\ search_out' = r.search_out
    /\ op' = "context"
    /\ args' = [query |-> query, top_k |-> k]
    /\ pre_coll' = coll
    /\ UNCHANGED <<coll, score_threshold, top_k, ret_count, ret_results, ret_response,
                   gen_calls, add_calls, ret_sources>>
    /\ UNCHANGED <<chunkerVars, appVars, docVars, handleVars>>

\* Retriever.get_sources(query, top_k)
GetSources(query, k) ==
    /\ op = "none"
    /\ LET r == GetSourcesResult(coll, score_threshold, top_k, query, k) IN
       /\ raised' = r.raised
       /\ ret_sources' = r.sources
       /\ embed_calls' = r.embeds
       /\ search_calls' = r.searches
       /\ search_out' = r.search_out
    /\ op' = "sources"
    /\ args' = [query |-> query, top_k |-> k]
    /\ pre_coll' = coll
    /\ UNCHANGED <<coll, score_threshold, top_k, ret_count, ret_results, ret_response,
                   gen_calls, add_calls, ret_context>>
    /\ UNCHANGED <<chunkerVars, appVars, docVars, handleVars>>

\* RAGPipeline.index_documents(source, clear_existing)
IndexDocuments(documents, clear_existing) ==
    /\ op = "none"
    /\ IndexDocumentsResult(coll, documents, clear_existing).done
    /\ Len(IndexDocumentsResult(coll, documents, clear_existing).coll) <= MaxEntries
    /\ coll' = IndexDocumentsResult(coll, documents, clear_existing).coll
    /\ raised' = IndexDocumentsResult(coll, documents, clear_existing).raised
    /\ ret_count' = IndexDocumentsResult(coll, documents, clear_existing).count
    /\ embed_calls' = IndexDocumentsResult(coll, documents, clear_existing).embeds
    /\ add_calls' = IndexDocumentsResult(coll, documents, clear_existing).adds
    /\ op' = "index"
    /\ args' = [documents |-> documents, clear_existing |-> clear_existing]
    /\ pre_coll' = coll
    /\ UNCHANGED <<score_threshold, top_k, ret_results, ret_response,
                   search_calls, gen_calls, search_out, ret_context, ret_sources>>
    /\ UNCHANGED <<chunkerVars, appVars, docVars, handleVars>>

\* RAGPipeline.add_document(text, source_name)
AddDocument(t, source_name) ==
    /\ op = "none"
    /\ AddDocumentResult(coll, t, source_name).done
    /\ Len(AddDocumentResult(coll, t, source_name).coll) <= MaxEntries
    /\ coll' = AddDocumentResult(coll, t, source_name).coll
    /\ raised' = AddDocumentResult(coll, t, source_name).raised
    /\ ret_count' = AddDocumentResult(coll, t, source_name).count
    /\ embed_calls' = AddDocumentResult(coll, t, source_name).embeds
    /\ add_calls' = AddDocumentResult(coll, t, source_name).adds
    /\ op' = "add_document"
    /\ args' = [text |-> t, source_name |-> source_name]
    /\ pre_coll' = coll
    /\ UNCHANGED <<score_threshold, top_k, ret_results, ret_response,
                   search_calls, gen_calls, search_out, ret_context, ret_sources>>
    /\ UNCHANGED <<chunkerVars, appVars, docVars, handleVars>>

\* VectorStore.clear(), RAGPipeline.clear()
Clear ==
    /\ op = "none"
    /\ coll' = ClearedCollection(coll)
    /\ op' = "clear"
    /\ args' = NoArgs
    /\ pre_coll' = coll
    /\ UNCHANGED <<score_threshold, top_k, raised, ret_count, ret_results,
                   ret_response, embed_calls, search_calls, gen_calls, add_calls, search_out,
                   ret_context, ret_sources>>
    /\ UNCHANGED <<chunkerVars, appVars, docVars, handleVars>>

\* the caller drops the outcome it holds
Return ==
    /\ op # "none"
    /\ op' = "none"
    /\ args' = NoArgs
    /\ pre_coll' = <<>>
    /\ raised' = FALSE
    /\ ret_count' = 0
    /\ ret_results' = <<>>
    /\ ret_response' = NoResponse
    /\ embed_calls' = 0
    /\ search_calls' = 0
    /\ gen_calls' = 0
    /\ add_calls' = 0
    /\ search_out' = <<>>
    /\ ret_context' = <<>>
    /\ ret_sources' = <<>>
    /\ UNCHANGED <<coll, score_threshold, top_k>>
    /\ UNCHANGED <<chunkerVars, appVars, docVars, handleVars>>

----------------------------------------------------------------------------
(* The web application (src/app.py) *)

\* no request has been received
AppIdle ==
    /\ requests = <<>>
    /\ running = {}
    /\ handled = <<>>

\* DocumentLoader.load_file(file_path) of a readable file of a supported
\* extension
LoadFile(content, path, name, suffix) ==
    [content |-> content,
     metadata |-> [source |-> path, filename |-> name, extension |-> suffix,
                   size_bytes |-> Len(content), loaded_at |-> LoadedAt,
                   char_count |-> Len(content),
                   line_count |-> CountOf(content, NL) + 1]]

\* the documents DocumentLoader.load_directory makes of the directories the
\* requests name: an empty directory, and directories of one file
Directories ==
    {<<>>,
     <<LoadFile(<<"a">>, "s1", "f1", ".txt")>>,
     <<LoadFile(<<"a", NL, NL, "b">>, "s2", "f2", ".txt")>>}

\* POST /api/index of an existing directory, POST /api/clear, POST /api/query
Requests ==
    {[kind |-> "index", documents |-> d] : d \in Directories}
    \cup {[kind |-> "clear", documents |-> <<>>]}
    \cup {[kind |-> "query", documents |-> <<>>, query |-> <<"a">>, top_k |-> k] :
            k \in 1 .. MaxTopK}

\* the records add_documents hands to collection.add for the chunks cs
RecordsOf(cs) ==
    [i \in 1 .. Len(cs) |->
        [id |-> AutoIds(cs)[i], document |-> cs[i].content,
         embedding |-> EmbedTexts(ContentsOf(cs))[i],
         metadata |-> BackendMetadata(cs[i])]]

\* the records an indexing run writes on the collection c: none without
\* documents or chunks, and none when collection.add rejects the batch
RecordsToWrite(c, documents) ==
    IF documents = <<>> THEN <<>>
    ELSE IF IndexDocumentsResult(c, documents, FALSE).raised
            \/ IndexDocumentsResult(c, documents, FALSE).count = 0
    THEN <<>>
    ELSE RecordsOf(ChunkDocuments(PipelineChunker, documents, 0).chunks)

\* collection.add's write of one record: skipped when the id exists
WriteOne(c, record) == IF record.id \in IdsOf(c) THEN c ELSE Append(c, record)

\* a loop that starts a handler whatever is in progress (handlers run in a
\* thread pool)
LoopAlwaysFree(in_progress) == TRUE

\* the event loop runs one handler at a time: every handler is a coroutine
\* without an await, in a single server process
LoopIsFree(in_progress) == in_progress = {}

\* a request arrives; the server queues it
Receive(req) ==
    /\ Len(requests) + Cardinality(running) + Len(handled) < MaxRequests
    /\ requests' = Append(requests, req)
    /\ UNCHANGED <<running, handled, coll>>
    /\ UNCHANGED <<chunkerVars, callVars, docVars, handleVars>>

\* index_documents(request) starts: the pipeline loads, chunks and embeds, and
\* collection.add accepts the batch
StartIndex ==
    /\ requests # <<>>
    /\ Head(requests).kind = "index"
    /\ LoopIsFree(running)
    /\ running' = running \cup
          {[id |-> Len(handled) + Cardinality(running) + 1, req |-> Head(requests),
            todo |-> RecordsToWrite(coll, Head(requests).documents),
            written |-> 0, cleared |-> FALSE]}
    /\ requests' = Tail(requests)
    /\ UNCHANGED <<handled, coll>>
    /\ UNCHANGED <<chunkerVars, callVars, docVars, handleVars>>

\* collection.add writes the handler's next record
WriteRecord(h) ==
    /\ h.req.kind = "index"
    /\ h.written < Len(h.todo)
    /\ coll' = WriteOne(coll, h.todo[h.written + 1])
    /\ running' = (running \ {h}) \cup {[h EXCEPT !.written = h.written + 1]}
    /\ UNCHANGED <<requests, handled>>
    /\ UNCHANGED <<chunkerVars, callVars, docVars, handleVars>>

\* clear_index() starts
StartClear ==
    /\ requests # <<>>
    /\ Head(requests).kind = "clear"
    /\ LoopIsFree(running)
    /\ running' = running \cup
          {[id |-> Len(handled) + Cardinality(running) + 1, req |-> Head(requests),
            todo |-> <<>>, written |-> 0, cleared |-> FALSE]}
    /\ requests' = Tail(requests)
    /\ UNCHANGED <<handled, coll>>
    /\ UNCHANGED <<chunkerVars, callVars, docVars, handleVars>>

\* rag_pipeline.clear() in clear_index
ClearIndex(h) ==
    /\ h.req.kind = "clear"
    /\ ~h.cleared
    /\ coll' = ClearedCollection(coll)
    /\ running' = (running \ {h}) \cup {[h EXCEPT !.cleared = TRUE]}
    /\ UNCHANGED <<requests, handled>>
    /\ UNCHANGED <<chunkerVars, callVars, docVars, handleVars>>

\* query(request) starts; its handler holds the position it has reached in
\* RAGPipeline.query, the RAGResponse under construction, the context handed
\* to the generator and the HTTP status
StartQuery ==
    /\ requests # <<>>
    /\ Head(requests).kind = "query"
    /\ LoopIsFree(running)
    /\ running' = running \cup
          {[id |-> Len(handled) + Cardinality(running) + 1, req |-> Head(requests),
            todo |-> <<>>, written |-> 0, cleared |-> FALSE,
            step |-> "count", response |-> NoResponse, context |-> <<>>,
            generated |-> FALSE, status |-> 200]}
    /\ requests' = Tail(requests)
    /\ UNCHANGED <<handled, coll>>
    /\ UNCHANGED <<chunkerVars, callVars, docVars, handleVars>>

\* the handler h moves on as h2
Moves(h, h2) ==
    /\ running' = (running \ {h}) \cup {h2}
    /\ UNCHANGED <<requests, handled, coll>>
    /\ UNCHANGED <<chunkerVars, callVars, docVars, handleVars>>

\* the outcome r of a retriever call for query on the collection handle as
\* it is: once the collection is deleted (a clear of a second caller is
\* between its delete and its create), collection.query raises in every
\* call that reaches the search
Reached(r, query) ==
    IF collection_exists \/ QueryIsBlank(query) THEN r
    ELSE [r EXCEPT !.raised = TRUE]

\* if collection.count() == 0: HTTPException 400; count() raises on a
\* deleted collection, outside the handler's try: status 500
QueryCount(h) ==
    /\ h.req.kind = "query"
    /\ h.step = "count"
    /\ Moves(h, IF ~collection_exists
                THEN [h EXCEPT !.step = "respond", !.status = 500]
                ELSE IF Len(coll) = 0
                THEN [h EXCEPT !.step = "respond", !.status = 400]
                ELSE [h EXCEPT !.step = "retrieve"])

\* RAGPipeline.query: retrieved = retriever.retrieve(question, top_k=k), and
\* the fixed response when nothing is retrieved
QueryRetrieve(h) ==
    /\ h.req.kind = "query"
    /\ h.step = "retrieve"
    /\ LET r == Reached(RetrieveResult(coll, score_threshold, top_k, h.req.query,
                                       QueryTopK(Some(h.req.top_k), top_k), None),
                        h.req.query)
       IN Moves(h, IF r.raised THEN [h EXCEPT !.step = "respond", !.status = 500]
                   ELSE IF ShortCircuits(r.results)
                   THEN [h EXCEPT !.step = "respond"]
                   ELSE [h EXCEPT !.step = "context",
                                  !.response.retrieved_chunks = r.results])

\* context = retriever.retrieve_with_context(question, top_k=k);
\* answer = generator.generate(question, context)
QueryContext(h, llm_up) ==
    /\ h.req.kind = "query"
    /\ h.step = "context"
    /\ LET r == Reached(RetrieveWithContextResult(
                            coll, score_threshold, top_k, h.req.query,
                            ContextTopK(QueryTopK(Some(h.req.top_k), top_k)),
                            ContextSeparator),
                        h.req.query)
       IN Moves(h, IF r.raised THEN [h EXCEPT !.step = "respond", !.status = 500]
                   ELSE [h EXCEPT !.step = "sources",
                                  !.context = r.context,
                                  !.generated = TRUE,
                                  !.response.answer =
                                      Generate(h.req.query, r.context, llm_up)])

\* sources = retriever.get_sources(question, top_k=k); return RAGResponse
QuerySources(h) ==
    /\ h.req.kind = "query"
    /\ h.step = "sources"
    /\ LET r == Reached(GetSourcesResult(
                            coll, score_threshold, top_k, h.req.query,
                            ContextTopK(QueryTopK(Some(h.req.top_k), top_k))),
                        h.req.query)
       IN Moves(h, IF r.raised THEN [h EXCEPT !.step = "respond", !.status = 500]
                   ELSE [h EXCEPT !.step = "respond",
                                  !.response.sources = r.sources])

\* the handler returns its response: index_documents reads count() for
\* total_chunks
Respond(h) ==
    /\ h.written = Len(h.todo)
    /\ h.req.kind = "clear" => h.cleared
    /\ h.req.kind = "query" => h.step = "respond"
    /\ handled' = Append(handled, [req |-> h.req, total |-> Len(coll)])
    /\ running' = running \ {h}
    /\ UNCHANGED <<requests, coll>>
    /\ UNCHANGED <<chunkerVars, callVars, docVars, handleVars>>

\* A second caller of the same pipeline object (another thread of the
\* program that holds the pipeline) starts a call only while a query call of
\* the first caller is between two of its statements, and makes one call at
\* a time.

\* the second caller's RAGPipeline.clear() reaches VectorStore.clear and
\* makes its first backend call: client.delete_collection(name). The
\* entries are gone and self.collection is still the deleted handle
SecondCallerClear ==
    /\ \E h \in running : h.req.kind = "query"
    /\ collection_exists
    /\ second_todo = <<>>
    /\ coll' = ClearedCollection(coll)
    /\ collection_exists' = FALSE
    /\ UNCHANGED <<requests, running, handled, second_todo>>
    /\ UNCHANGED <<chunkerVars, callVars, docVars>>

\* VectorStore.clear's second statement:
\* self.collection = client.get_or_create_collection(...)
SecondCallerCreate ==
    /\ ~collection_exists
    /\ collection_exists' = TRUE
    /\ UNCHANGED <<requests, running, handled, coll, second_todo>>
    /\ UNCHANGED <<chunkerVars, callVars, docVars>>

\* the second caller's RAGPipeline.index_documents(source) has loaded,
\* chunked and embedded, and collection.add has accepted the batch
SecondCallerIndex(documents) ==
    /\ \E h \in running : h.req.kind = "query"
    /\ collection_exists
    /\ second_todo = <<>>
    /\ RecordsToWrite(coll, documents) # <<>>
    /\ Len(IndexDocumentsResult(coll, documents, FALSE).coll) <= MaxEntries
    /\ second_todo' = RecordsToWrite(coll, documents)
    /\ UNCHANGED <<requests, running, handled, coll, collection_exists>>
    /\ UNCHANGED <<chunkerVars, callVars, docVars>>

\* the second caller's collection.add writes its next record
SecondCallerWrite ==
    /\ second_todo # <<>>
    /\ coll' = WriteOne(coll, Head(second_todo))
    /\ second_todo' = Tail(second_todo)
    /\ UNCHANGED <<requests, running, handled, collection_exists>>
    /\ UNCHANGED <<chunkerVars, callVars, docVars>>

----------------------------------------------------------------------------
(* The collection handle: delete_collection and the calls that follow it *)

\* VectorStore._initialize_db: get_or_create_collection
HandleLive == collection_exists = TRUE /\ second_todo = <<>>

\* VectorStore.delete_collection(): client.delete_collection(name); the
\* store keeps self.collection. Deleting a collection that does not exist
\* raises
DeleteCollection ==
    /\ op = "none"
    /\ op' = "delete_collection"
    /\ args' = NoArgs
    /\ pre_coll' = coll
    /\ raised' = ~collection_exists
    /\ collection_exists' = FALSE
    /\ coll' = <<>>
    /\ UNCHANGED <<score_threshold, top_k, ret_count, ret_results, ret_response,
                   embed_calls, search_calls, gen_calls, add_calls, search_out,
                   ret_context, ret_sources, second_todo>>
    /\ UNCHANGED <<chunkerVars, appVars, docVars>>

\* VectorStore.get_stats() on an existing collection: collection.count()
GetStats ==
    /\ op = "none"
    /\ collection_exists
    /\ op' = "stats"
    /\ args' = NoArgs
    /\ pre_coll' = coll
    /\ raised' = FALSE
    /\ ret_count' = Len(coll)
    /\ UNCHANGED <<coll, score_threshold, top_k, ret_results, ret_response,
                   embed_calls, search_calls, gen_calls, add_calls, search_out,
                   ret_context, ret_sources>>
    /\ UNCHANGED <<chunkerVars, appVars, docVars, handleVars>>

\* search, add_documents, get_stats or clear, called with call_args after
\* the collection was deleted: add_documents still returns 0 by its first
\* test when the chunk list or the embedding list is empty; every other
\* call raises (add_documents at its length check or in collection.add, the
\* others in their backend call), and the collection is not created again
DeadCall(name, call_args) ==
    /\ op = "none"
    /\ ~collection_exists
    /\ op' = name
    /\ args' = call_args
    /\ pre_coll' = coll
    /\ raised' = IF name = "add"
                 THEN ~NothingToAdd(call_args.chunks, call_args.embeddings)
                 ELSE TRUE
    /\ ret_count' = 0
    /\ search_calls' = IF name = "search" THEN 1 ELSE 0
    /\ UNCHANGED <<coll, score_threshold, top_k, ret_results, ret_response,
                   embed_calls, gen_calls, add_calls, search_out,
                   ret_context, ret_sources>>
    /\ UNCHANGED <<chunkerVars, appVars, docVars, handleVars>>

----------------------------------------------------------------------------

(* Specifications *)

ChunkerNext ==
    \/ \E c \in Configs : Construct(c.chunk_size, c.chunk_overlap, DefaultSeparator)
    \/ Construct(CustomChunker.chunk_size, CustomChunker.chunk_overlap,
                 CustomChunker.separator)
    \/ \E t \in Texts \cup {ScenarioText} : SplitText(t)
    \/ \E documents \in SeqsUpTo(DocValues, MaxDocs) : ChunkDocumentsCall(documents)
    \/ SegStep
    \/ SegDone
    \/ WinAdvance
    \/ WinLast
    \/ WinEnd

InitChunker == ChunkerInit /\ StoreIdle /\ AppIdle /\ DocsIdle /\ HandleLive

SpecChunker == InitChunker /\ [][ChunkerNext]_vars

Init == StoreInit /\ ChunkerInit /\ AppIdle /\ DocsIdle /\ HandleLive

Next ==
    \/ \E cs \in ChunkBatches,
          embeddings \in EmbeddingBatches,
          ids \in {None} \cup {Some(l) : l \in SeqsUpTo(GivenIds, MaxBatch)} :
          AddDocuments(cs, embeddings, ids)
    \/ \E query \in Queries, k \in TopKArgs, where \in Filters :
          Retrieve(query, k, where)
    \/ \E question \in Queries, k \in TopKArgs, return_sources \in BOOLEAN,
          llm_up \in BOOLEAN :
          Query(question, k, return_sources, llm_up)
    \/ \E query_embedding \in Vectors, k \in 0 .. MaxTopK, where \in Filters :
          SearchCall(query_embedding, k, where)
    \/ \E query \in Queries, k \in TopKArgs : RetrieveWithContext(query, k)
    \/ \E query \in Queries, k \in TopKArgs : GetSources(query, k)
    \/ \E documents \in {<<>>} \cup {<<LoadText(t, "direct_input")>> : t \in PipelineTexts},
          clear_existing \in BOOLEAN :
          IndexDocuments(documents, clear_existing)
    \/ \E t \in PipelineTexts : AddDocument(t, "manual_input")
    \/ Clear
    \/ Return

Spec == Init /\ [][Next]_vars

InitApp == ChunkerInit /\ StoreIdle /\ AppIdle /\ DocsIdle /\ HandleLive

AppNext ==
    \/ \E req \in Requests : Receive(req)
    \/ StartIndex
    \/ \E h \in running : WriteRecord(h)
    \/ StartClear
    \/ \E h \in running : ClearIndex(h)
    \/ StartQuery
    \/ \E h \in running : QueryCount(h)
    \/ \E h \in running : QueryRetrieve(h)
    \/ \E h \in running, llm_up \in BOOLEAN : QueryContext(h, llm_up)
    \/ \E h \in running : QuerySources(h)
    \/ \E h \in running : Respond(h)

SpecApp == InitApp /\ [][AppNext]_vars

----------------------------------------------------------------------------
(* One RAGPipeline object with two callers: the query requests of the      *)
(* first, served by the query handler, and, between the handler's          *)
(* statements, the backend calls of index_documents and clear calls of the *)
(* second. RAGPipeline and VectorStore take no lock and query no snapshot  *)
(* of the index                                                            *)

SharedNext ==
    \/ \E req \in Requests :
          /\ req.kind = "query"
          /\ Len(requests) + Cardinality(running) + Len(handled) < MaxQueries
          /\ Receive(req)
    \/ StartQuery
    \/ \E h \in running : QueryCount(h)
    \/ \E h \in running : QueryRetrieve(h)
    \/ \E h \in running, llm_up \in BOOLEAN : QueryContext(h, llm_up)
    \/ \E h \in running : QuerySources(h)
    \/ \E h \in running : Respond(h)
    \/ SecondCallerClear
    \/ SecondCallerCreate
    \/ \E documents \in Directories : SecondCallerIndex(documents)
    \/ SecondCallerWrite

SpecShared == InitApp /\ [][SharedNext]_vars

----------------------------------------------------------------------------
(* A VectorStore used directly, delete_collection included *)

HandleNext ==
    \/ /\ collection_exists
       /\ \E cs \in ChunkBatches, embeddings \in EmbeddingBatches :
             AddDocuments(cs, embeddings, None)
    \/ /\ collection_exists
       /\ \E query_embedding \in Vectors, k \in 1 .. MaxTopK, where \in Filters :
             SearchCall(query_embedding, k, where)
    \/ collection_exists /\ Clear
    \/ GetStats
    \/ DeleteCollection
    \/ \E cs \in ChunkBatches, embeddings \in EmbeddingBatches :
          DeadCall("add", [chunks |-> cs, embeddings |-> embeddings, ids |-> None])
    \/ \E query_embedding \in Vectors, k \in 1 .. MaxTopK, where \in Filters :
          DeadCall("search", [query_embedding |-> query_embedding, top_k |-> k,
                              where |-> where])
    \/ \E name \in {"stats", "clear"} : DeadCall(name, NoArgs)
    \/ Return

SpecHandle == Init /\ [][HandleNext]_vars

----------------------------------------------------------------------------

(* Properties of TextChunker, under SpecChunker *)

\* a chunker exists and its configuration has 0 <= chunk_overlap < chunk_size
AcceptedConfig ==
    /\ pc \notin {"new", "failed"}
    /\ 0 <= ck.chunk_overlap
    /\ ck.chunk_overlap < ck.chunk_size

\* the chunk contents split_text returned
Contents == [i \in 1 .. Len(chunks) |-> chunks[i].content]

\* C1: size bound. Every chunk split_text returns under an accepted
\* configuration has at most chunk_size characters; and with chunk_size 10,
\* overlap 3 the text "ABCDEFGHIJ" + separator + "KLMNOPQRST" yields exactly
\* two chunks.
C1_SizeBound ==
    (pc = "done" /\ AcceptedConfig) =>
        /\ \A i \in 1 .. Len(chunks) : Len(chunks[i].content) <= ck.chunk_size
        /\ (text = ScenarioText /\ ck.chunk_size = ScenarioConfig.chunk_size
            /\ ck.chunk_overlap = ScenarioConfig.chunk_overlap)
           => Len(chunks) = 2

\* C2: overlap invariant. With chunk_overlap = v > 0, each returned chunk
\* whose predecessor has at least v characters begins with the predecessor's
\* last v characters.
C2_OverlapInvariant ==
    (pc = "done" /\ AcceptedConfig /\ ck.chunk_overlap > 0) =>
        \A i \in 1 .. (Len(chunks) - 1) :
            Len(Contents[i]) >= ck.chunk_overlap =>
                Slice(Contents[i + 1], 0, ck.chunk_overlap)
                    = SliceFrom(Contents[i], -ck.chunk_overlap)

\* C3: termination of the character-window pass. Under an accepted
\* configuration every step of the window loop moves the window start
\* strictly forward, and never to a negative position.
C3_WindowAdvances ==
    [][(pc = "win" /\ pc' = "win" /\ AcceptedConfig)
        => (start' > start /\ start' >= 0)]_vars

\* C4: construction fails, and yields no chunker, whenever
\* chunk_overlap >= chunk_size; it succeeds, with the fields as given,
\* whenever 0 <= chunk_overlap < chunk_size.
C4_ConstructionCheck ==
    pc # "new" =>
        /\ ctor_args.chunk_overlap >= ctor_args.chunk_size
           => (ck_error /\ ck = NoChunker /\ pc = "failed")
        /\ (0 <= ctor_args.chunk_overlap
            /\ ctor_args.chunk_overlap < ctor_args.chunk_size)
           => (/\ ~ck_error
               /\ ck.chunk_size = ctor_args.chunk_size
               /\ ck.chunk_overlap = ctor_args.chunk_overlap)

\* C4 witness: a construction with chunk_overlap = chunk_size > 0 was refused
C4_Witness ==
    /\ pc = "failed"
    /\ ctor_args.chunk_size > 0
    /\ ctor_args.chunk_overlap = ctor_args.chunk_size

\* C5: a construction with a negative chunk_overlap fails.
C5_NegativeOverlapRejected ==
    (pc # "new" /\ ctor_args.chunk_overlap < 0) => ck_error

----------------------------------------------------------------------------
(* Properties of VectorStore, Retriever and RAGPipeline, under Spec *)

\* the positions of the search results that meet the threshold
KeptPositions == {i \in 1 .. Len(search_out) :
                    FracGeq(search_out[i].score, score_threshold)}

\* the k-th of them, in search order
KthKept(k) ==
    CHOOSE i \in KeptPositions : Cardinality({j \in KeptPositions : j < i}) = k - 1

\* C6: retrieve returns exactly the search results with
\* score >= score_threshold, in search order; none below the threshold; and
\* all of them when the threshold is 0.
C6_ThresholdFilter ==
    (op = "retrieve" /\ ~raised) =>
        /\ Len(ret_results) = Cardinality(KeptPositions)
        /\ \A k \in 1 .. Len(ret_results) :
              /\ ret_results[k] = RetrievalResult(search_out[KthKept(k)])
              /\ FracGeq(ret_results[k].score, score_threshold)
        /\ score_threshold = Frac(0, 1) => Len(ret_results) = Len(search_out)

\* C6 witness: a retrieve whose search returned two results, of which the
\* threshold kept one
C6_Witness ==
    /\ op = "retrieve"
    /\ ~raised
    /\ Len(search_out) = 2
    /\ Len(ret_results) = 1

\* C7: retrieve with an empty or whitespace-only query returns [] without
\* raising and calls neither the Embedder nor VectorStore.search.
C7_BlankQuery ==
    (op = "retrieve" /\ IsBlank(args.query)) =>
        /\ ~raised
        /\ ret_results = <<>>
        /\ embed_calls = 0
        /\ search_calls = 0

\* C7 witness: a whitespace-only query against a non-empty index
C7_Witness ==
    /\ op = "retrieve"
    /\ args.query = <<SP>>
    /\ coll # <<>>
    /\ ret_results = <<>>

\* what query's first retrieve call returns
FirstRetrieve ==
    RetrieveResult(pre_coll, score_threshold, top_k, args.question,
                   Some(TopKOr(args.top_k, top_k)), None)

\* C8: when retrieve returns no results, query returns the fixed answer with
\* no sources and no chunks, and the Generator is not invoked.
C8_EmptyRetrieval ==
    (op = "query" /\ ~FirstRetrieve.raised /\ FirstRetrieve.results = <<>>) =>
        /\ ~raised
        /\ ret_response = [answer |-> NoInfoAnswer, sources |-> <<>>,
                           retrieved_chunks |-> <<>>]
        /\ gen_calls = 0

\* C8 witness: a query whose search found an entry that the threshold
\* dropped, so that retrieve returned nothing
C8_Witness ==
    /\ op = "query"
    /\ ~raised
    /\ search_out # <<>>
    /\ ret_response.retrieved_chunks = <<>>
    /\ gen_calls = 0

\* the add call named ids, one per chunk and per embedding
WellFormedAdd ==
    /\ op = "add"
    /\ args.ids.given
    /\ args.chunks # <<>>
    /\ Len(args.ids.v) = Len(args.chunks)
    /\ Len(args.embeddings) = Len(args.chunks)

\* C9: idempotent re-index. After a successful add of an entry whose id the
\* index already held with another content, the index holds exactly one
\* entry of that id, with the new content, and count() has grown only by
\* the ids that are new.
C9_IdempotentReindex ==
    (WellFormedAdd /\ ~raised) =>
        /\ \A i \in 1 .. Len(args.ids.v) :
              (\E j \in 1 .. Len(pre_coll) :
                  /\ pre_coll[j].id = args.ids.v[i]
                  /\ pre_coll[j].document # args.chunks[i].content)
              => /\ Cardinality({j \in 1 .. Len(coll) : coll[j].id = args.ids.v[i]}) = 1
                 /\ \A j \in 1 .. Len(coll) :
                       coll[j].id = args.ids.v[i]
                       => coll[j].document = args.chunks[i].content
        /\ Len(coll) = Cardinality(IdsOf(pre_coll)
                                   \cup {args.ids.v[i] : i \in 1 .. Len(args.ids.v)})

\* the numbers of chunks, embeddings and (if given) ids are not all equal
ArityMismatch ==
    \/ Len(args.chunks) # Len(args.embeddings)
    \/ (args.ids.given /\ Len(args.ids.v) # Len(args.chunks))
    \/ (args.ids.given /\ Len(args.ids.v) # Len(args.embeddings))

\* C10: add_documents raises whenever the numbers of chunks, embeddings and
\* (if given) ids are not all equal, and leaves the index as it was.
C10_ArityRejected ==
    (op = "add" /\ ArityMismatch) => (raised /\ coll = pre_coll)

\* C10, amended: with unequal numbers add_documents leaves the index as it
\* was; it raises, unless the chunk list or the embedding list is empty:
\* then it returns 0 without an error.
C10_ArityAmended ==
    (op = "add" /\ ArityMismatch) =>
        /\ coll = pre_coll
        /\ IF args.chunks = <<>> \/ args.embeddings = <<>>
           THEN ~raised /\ ret_count = 0
           ELSE raised

\* C10 witness: two chunks with one embedding, refused on a non-empty index
C10_Witness ==
    /\ op = "add"
    /\ Len(args.chunks) = 2
    /\ Len(args.embeddings) = 1
    /\ raised
    /\ pre_coll # <<>>
    /\ coll = pre_coll

\* C11: VectorStore.search returns at most top_k results and never more than
\* count() results; on an empty index it returns [] for every top_k, without
\* raising an error.
C11_SearchBounded ==
    op = "search" =>
        /\ ~raised => (/\ Len(search_out) <= args.top_k
                       /\ Len(search_out) <= Len(pre_coll))
        /\ pre_coll = <<>> => (~raised /\ search_out = <<>>)

\* C12: every result of search has score = 1 / (1 + distance) with
\* distance >= 0, so 0 < score <= 1; a smaller distance has a strictly greater
\* score; the results are in ascending distance order and so in
\* non-increasing score order.
C12_ScoreMonotone ==
    (op = "search" /\ ~raised) =>
        /\ \A i \in 1 .. Len(search_out) :
              /\ ~DistLess(search_out[i].distance, [whole |-> 0, tiny |-> 0])
              /\ search_out[i].score.den > 0
              /\ search_out[i].score.num * (1 + search_out[i].distance.whole)
                    = search_out[i].score.den
              /\ search_out[i].score.num > 0
              /\ search_out[i].score.num <= search_out[i].score.den
        /\ \A i, j \in 1 .. Len(search_out) :
              /\ DistLess(search_out[i].distance, search_out[j].distance)
                    => FracGt(search_out[i].score, search_out[j].score)
              /\ i < j => /\ ~DistLess(search_out[j].distance, search_out[i].distance)
                          /\ FracGeq(search_out[i].score, search_out[j].score)

\* C12 as the float arithmetic keeps it: every result of search has the
\* score 1 / (1 + distance) as floats compute it, with distance >= 0 and
\* 0 < score <= 1; a smaller distance never has a smaller score, and has a
\* strictly greater one unless the float computation gives both distances
\* the same score (here: unless they differ by a tiny part only); the
\* results are in ascending distance order and so in non-increasing score
\* order.
C12_ScoreMonotoneAmended ==
    (op = "search" /\ ~raised) =>
        /\ \A i \in 1 .. Len(search_out) :
              /\ ~DistLess(search_out[i].distance, [whole |-> 0, tiny |-> 0])
              /\ search_out[i].score.den > 0
              /\ search_out[i].score.num * (1 + search_out[i].distance.whole)
                    = search_out[i].score.den
              /\ search_out[i].score.num > 0
              /\ search_out[i].score.num <= search_out[i].score.den
        /\ \A i, j \in 1 .. Len(search_out) :
              /\ DistLess(search_out[i].distance, search_out[j].distance)
                    => FracGeq(search_out[i].score, search_out[j].score)
              /\ search_out[i].distance.whole < search_out[j].distance.whole
                    => FracGt(search_out[i].score, search_out[j].score)
              /\ i < j => /\ ~DistLess(search_out[j].distance, search_out[i].distance)
                          /\ FracGeq(search_out[i].score, search_out[j].score)

\* C12 witness: a search returned two results, the first nearer than the
\* second by less than float addition to 1.0 resolves, with equal scores
C12_Witness ==
    /\ op = "search"
    /\ ~raised
    /\ Len(search_out) = 2
    /\ DistLess(search_out[1].distance, search_out[2].distance)
    /\ search_out[1].distance.whole = search_out[2].distance.whole
    /\ search_out[1].score = search_out[2].score

\* the calls that write to the index
Writers == {"add", "index", "add_document"}

\* C13: index lifecycle. A clear leaves count() = 0 whatever the index held,
\* and every search of the empty index returns [] (it does not raise); the
\* index goes from empty to non-empty only by a successful add of at least
\* one chunk, back to empty only by a clear (or an indexing run that clears
\* first), and changes in no other call.
C13_Lifecycle ==
    [][/\ op' = "clear" => coll' = <<>>
       /\ (coll = <<>> /\ coll' # <<>>)
             => (op' \in Writers /\ ~raised' /\ ret_count' >= 1)
       /\ (coll # <<>> /\ coll' = <<>>)
             => (op' = "clear" \/ (op' = "index" /\ args'.clear_existing))
       /\ coll' # coll => op' \in Writers \cup {"clear"}
       /\ (coll = <<>> /\ op' = "search") => (~raised' /\ search_out' = <<>>)]_vars

\* C14: indexing runs accumulate. When index_documents without clear_existing,
\* or add_document, returns n on an index of m entries, count() is m + n
\* afterwards; with clear_existing count() is n.
C14_IndexAccumulates ==
    (op \in {"index", "add_document"} /\ ~raised) =>
        IF op = "index" /\ args.clear_existing
        THEN Len(coll) = ret_count
        ELSE Len(coll) = Len(pre_coll) + ret_count

\* a search of the whole index, without a filter, for the i-th embedding of
\* the add call the caller holds
SearchAfterAdd(i) == Search(coll, args.embeddings[i], Len(coll), None).results

\* C15: read-your-writes. After add_documents has returned, a search with
\* sufficient top_k and no filter returns every entry the call added.
C15_ReadYourWrites ==
    (op = "add" /\ ~raised /\ ret_count > 0) =>
        \A i \in 1 .. Len(args.chunks) :
            \E j \in 1 .. Len(SearchAfterAdd(i)) :
                /\ SearchAfterAdd(i)[j].content = args.chunks[i].content
                /\ SearchAfterAdd(i)[j].distance = [whole |-> 0, tiny |-> 0]

\* the position of the first "---" of a text, or -1
FirstRule(content) == Find(content, <<"-", "-", "-">>, 0)

\* a chunk's content up to its first "---", stripped
Extract(content) ==
    Strip(IF FirstRule(content) = -1 THEN content
          ELSE SubSeq(content, 1, FirstRule(content)))

\* C17: when retrieval is non-empty and the Generator fails, query does not
\* raise: its answer is the extractive fallback made of the top retrieved
\* chunk's content (up to the first "---", stripped), and retrieved_chunks
\* are the retrieved results.
C17_GeneratorFallback ==
    (op = "query" /\ ~args.llm_up /\ ~FirstRetrieve.raised
     /\ FirstRetrieve.results # <<>>) =>
        /\ ~raised
        /\ ret_response.answer.kind = "fallback"
        /\ ret_response.answer.context = Extract(FirstRetrieve.results[1].content)
        /\ ret_response.retrieved_chunks = FirstRetrieve.results

\* the results of the retrieve call inside retrieve_with_context and
\* get_sources
InnerRetrieve ==
    RetrieveResult(pre_coll, score_threshold, top_k, args.query, args.top_k, None)

\* a result's source label: "source", else "filename", else the literal
LabelOf(metadata, unknown) ==
    IF "source" \in DOMAIN metadata THEN metadata["source"]
    ELSE IF "filename" \in DOMAIN metadata THEN metadata["filename"]
    ELSE unknown

\* the first position of a label among the results' labels
FirstAt(results, label, unknown) ==
    CHOOSE i \in 1 .. Len(results) :
        /\ LabelOf(results[i].metadata, unknown) = label
        /\ \A j \in 1 .. (i - 1) : LabelOf(results[j].metadata, unknown) # label

\* get_sources returned the results' labels, each once, in the order of
\* their first occurrence
SourcesAre(results, unknown) ==
    /\ \A i, j \in 1 .. Len(ret_sources) : ret_sources[i] = ret_sources[j] => i = j
    /\ \A i \in 1 .. Len(results) :
          \E j \in 1 .. Len(ret_sources) :
              ret_sources[j] = LabelOf(results[i].metadata, unknown)
    /\ \A j \in 1 .. Len(ret_sources) :
          \E i \in 1 .. Len(results) :
              ret_sources[j] = LabelOf(results[i].metadata, unknown)
    /\ \A i, j \in 1 .. Len(ret_sources) :
          i < j => FirstAt(results, ret_sources[i], unknown)
                     < FirstAt(results, ret_sources[j], unknown)

\* C18: get_sources returns each retrieved result's metadata "source"
\* (else "filename", else the literal "unknown"), without duplicates, in
\* first-occurrence order.
C18_GetSources ==
    (op = "sources" /\ ~raised) => SourcesAre(InnerRetrieve.results, "unknown")

\* C18, amended: as C18, with the literal "Bilinmeyen" for a result that has
\* neither "source" nor "filename".
C18_GetSourcesAmended ==
    (op = "sources" /\ ~raised) => SourcesAre(InnerRetrieve.results, "Bilinmeyen")

\* C18 witness: get_sources over two results, the second without "source" and
\* "filename"
C18_Witness ==
    /\ op = "sources"
    /\ ~raised
    /\ Len(search_out) = 2
    /\ Len(ret_sources) = 2
    /\ ret_sources[2] = "Bilinmeyen"

\* the context the claim describes, from result i on: the block
\* header_open + i + ": " + <filename or unknown> + "]" + newline + content
\* of each result, the blocks joined by the separator
RECURSIVE BlocksFrom(_, _, _, _)
BlocksFrom(results, i, header_open, unknown) ==
    IF i > Len(results) THEN <<>>
    ELSE header_open \o StrOfInt(i) \o <<":", SP>>
         \o (IF "filename" \in DOMAIN results[i].metadata
             THEN Chars(results[i].metadata["filename"]) ELSE unknown)
         \o <<"]", NL>> \o results[i].content
         \o (IF i < Len(results) THEN ContextSeparator ELSE <<>>)
         \o BlocksFrom(results, i + 1, header_open, unknown)

ContextIs(results, header_open, unknown) ==
    /\ ret_context = <<>> <=> results = <<>>
    /\ ret_context = BlocksFrom(results, 1, header_open, unknown)

\* C19: retrieve_with_context returns "" exactly when retrieve returns no
\* result; else the blocks "[Source i: <filename or unknown>]" + newline +
\* content of the results, in order, numbered from 1, joined by the
\* separator.
C19_ContextFormat ==
    (op = "context" /\ ~raised) =>
        ContextIs(InnerRetrieve.results,
                  <<"[", "S", "o", "u", "r", "c", "e", SP>>,
                  <<"u", "n", "k", "n", "o", "w", "n">>)

\* C19, amended: as C19, with the header "[Kaynak i: <filename or
\* Bilinmeyen>]".
C19_ContextFormatAmended ==
    (op = "context" /\ ~raised) =>
        ContextIs(InnerRetrieve.results,
                  <<"[", "K", "a", "y", "n", "a", "k", SP>>,
                  <<"B", "i", "l", "i", "n", "m", "e", "y", "e", "n">>)

\* C19 witness: a context of two results
C19_Witness ==
    /\ op = "context"
    /\ ~raised
    /\ Len(InnerRetrieve.results) = 2
    /\ ret_context # <<>>

----------------------------------------------------------------------------
(* Properties of the web application, under SpecApp *)

\* the index after a request is served alone on the index c
AfterRequest(c, req) ==
    IF req.kind = "clear" THEN ClearedCollection(c)
    ELSE IndexDocumentsResult(c, req.documents, FALSE).coll

\* the index after the first n served requests ran one after the other, in
\* the order they were served, on the empty index
RECURSIVE SerialIndex(_)
SerialIndex(n) ==
    IF n = 0 THEN <<>> ELSE AfterRequest(SerialIndex(n - 1), handled[n].req)

\* the index with an indexing run's first k records written
RECURSIVE WithWritten(_, _, _)
WithWritten(c, todo, k) ==
    IF k = 0 THEN c ELSE WriteOne(WithWritten(c, todo, k - 1), todo[k])

\* C16: adds (and clear) on the one VectorStore are mutually exclusive: at
\* most one handler is in progress under any arrival of requests; the index
\* holds only whole records, those the served requests leave when run one
\* after the other, plus the records written so far by the one add in
\* progress; once a handler has returned, its add is entirely in the index
\* or has had no effect, and the count() it reported is the serial one.
C16_Serialized ==
    /\ Cardinality(running) <= 1
    /\ running = {} => coll = SerialIndex(Len(handled))
    /\ \A h \in running :
          coll = IF h.cleared THEN <<>>
                 ELSE WithWritten(SerialIndex(Len(handled)), h.todo, h.written)
    /\ \A n \in 1 .. Len(handled) : handled[n].total = Len(SerialIndex(n))

\* C16 witness: an add has written one of its two records while a clear
\* request waits
C16_Witness ==
    /\ requests # <<>>
    /\ Head(requests).kind = "clear"
    /\ \E h \in running : Len(h.todo) = 2 /\ h.written = 1

----------------------------------------------------------------------------
(* C29: the early returns of index_documents *)

\* the call found no documents, or chunk_documents made no chunk of them
ReturnsEarly(documents) ==
    \/ documents = <<>>
    \/ ChunkDocuments(PipelineChunker, documents, 0).chunks = <<>>

\* C29: an index_documents call that returns 0 because no documents or no
\* chunks result raises nothing, calls neither the Embedder nor
\* VectorStore.add_documents, and leaves the index as it was when
\* clear_existing is false and empty when clear_existing is true
C29_EarlyReturns ==
    (op = "index" /\ ReturnsEarly(args.documents)) =>
        /\ ~raised
        /\ ret_count = 0
        /\ embed_calls = 0
        /\ add_calls = 0
        /\ coll = IF args.clear_existing THEN <<>> ELSE pre_coll

C29_Witness ==
    /\ op = "index"
    /\ args.clear_existing
    /\ ReturnsEarly(args.documents)
    /\ pre_coll # <<>>
    /\ coll = <<>>
    /\ ret_count = 0

----------------------------------------------------------------------------
(* C26: the caller's top_k *)

\* C26: retrieve and query hand every supplied top_k to the search and use
\* the configured default only when none is supplied, so a call with a
\* supplied top_k >= 0 returns at most top_k results
C26_TopKPassedThrough ==
    /\ (op = "retrieve" /\ args.top_k.given /\ ~raised) =>
            Len(ret_results) <= args.top_k.v
    /\ (op = "query" /\ args.top_k.given /\ ~raised) =>
            Len(ret_response.retrieved_chunks) <= args.top_k.v

----------------------------------------------------------------------------
(* C27: the embeddings the pipeline hands to add_documents *)

\* the documents an indexing call of the pipeline chunks
CallDocuments ==
    IF op = "index" THEN args.documents
    ELSE <<LoadText(args.text, args.source_name)>>

\* the chunks chunk_documents makes of them
CallChunks == ChunkDocuments(PipelineChunker, CallDocuments, 0).chunks

\* C27: in index_documents and add_document the embeddings handed to
\* add_documents are as many as the chunks and the k-th embedding is the
\* k-th chunk's (embed_texts drops nothing, no chunk being blank), so the
\* call never raises the count-mismatch error: it raises only when the index
\* holds vectors of another dimension
C27_EmbeddingsAligned ==
    op \in {"index", "add_document"} =>
        /\ Len(EmbedTexts(ContentsOf(CallChunks))) = Len(CallChunks)
        /\ \A k \in 1 .. Len(CallChunks) :
              EmbedTexts(ContentsOf(CallChunks))[k] = Encode(CallChunks[k].content)
        /\ raised => /\ pre_coll # <<>>
                     /\ Len(pre_coll[1].embedding) # Len(Encode(<<>>))

C27_Witness ==
    /\ op = "index"
    /\ Len(CallChunks) = 2
    /\ ~raised
    /\ ret_count = 2
    /\ Len(coll) = 2

----------------------------------------------------------------------------
(* C24: blank texts, blank segments, blank chunks; under SpecChunker *)

\* empty or made of whitespace only
WhitespaceOnly(s) == \A i \in 1 .. Len(s) : IsSpace(s[i])

\* every separator-delimited segment of the text is blank
AllSegmentsBlank ==
    \A i \in 1 .. Len(Split(text, ck.separator)) :
        WhitespaceOnly(Split(text, ck.separator)[i])

\* C24: split_text returns the empty list on an empty or whitespace-only
\* text and on a text whose separator-delimited segments are all blank, and
\* no chunk it returns has empty or whitespace-only content
C24_NoBlankChunk ==
    pc = "done" =>
        /\ WhitespaceOnly(text) => chunks = <<>>
        /\ AllSegmentsBlank => chunks = <<>>
        /\ \A i \in 1 .. Len(chunks) : ~WhitespaceOnly(chunks[i].content)

\* a text that is not blank, with blank segments only, returned no chunk
C24_Witness ==
    /\ pc = "done"
    /\ ~WhitespaceOnly(text)
    /\ Len(text) >= 3
    /\ AllSegmentsBlank
    /\ chunks = <<>>

----------------------------------------------------------------------------
(* C21: chunk coverage; under SpecChunker *)

\* the text without its whitespace
RECURSIVE NonSpace(_)
NonSpace(s) ==
    IF s = <<>> THEN <<>>
    ELSE (IF IsSpace(Head(s)) THEN <<>> ELSE <<Head(s)>>) \o NonSpace(Tail(s))

IsPrefixOf(p, s) == Len(p) <= Len(s) /\ SubSeq(s, 1, Len(p)) = p

IsSuffixOf(p, s) == Len(p) <= Len(s) /\ SubSeq(s, Len(s) - Len(p) + 1, Len(s)) = p

\* the chunks from the i-th on rebuild rest: each chunk, after an overlap
\* prefix of at most overlap characters carried from its predecessor (none
\* for the first chunk), continues the text where the one before it stopped
RECURSIVE Rebuilds(_, _, _, _)
Rebuilds(cs, i, rest, overlap) ==
    IF i > Len(cs) THEN rest = <<>>
    ELSE \E p \in 0 .. (IF i = 1 THEN 0 ELSE Min2(Max2(overlap, 0), Len(cs[i]))) :
            /\ i > 1 => IsSuffixOf(NonSpace(Slice(cs[i], 0, p)), NonSpace(cs[i - 1]))
            /\ IsPrefixOf(NonSpace(SliceFrom(cs[i], p)), rest)
            /\ Rebuilds(cs, i + 1,
                        SliceFrom(rest, Len(NonSpace(SliceFrom(cs[i], p)))), overlap)

\* C21: for every non-blank text, every non-whitespace character of the text
\* appears in the chunks split_text returns, and the chunks without their
\* overlap prefixes, concatenated, are the text up to whitespace: nothing is
\* dropped or duplicated outside the overlap
C21_ChunkCoverage ==
    (pc = "done" /\ ~IsBlank(text)) =>
        /\ \A i \in 1 .. Len(text) :
              ~IsSpace(text[i]) =>
                  \E j \in 1 .. Len(chunks) :
                      \E k \in 1 .. Len(chunks[j].content) :
                          chunks[j].content[k] = text[i]
        /\ Rebuilds(Contents, 1, NonSpace(text), ck.chunk_overlap)

----------------------------------------------------------------------------
(* C22, C23: chunk_documents; under SpecChunker *)

\* C22: the i-th chunk (0-based) split_text returns for a document has
\* chunk_index = i, chunk_size = len(content) and the id
\* '<source or unknown>_chunk_<i>'; and all chunk ids of one chunk_documents
\* call over several documents are pairwise distinct
C22_ChunkIdentity ==
    pc = "chunked" =>
        /\ Len(passed_docs) = 1 =>
              \A i \in 1 .. Len(all_chunks) :
                  /\ all_chunks[i].metadata["chunk_index"] = i - 1
                  /\ all_chunks[i].metadata["chunk_size"] = Len(all_chunks[i].content)
                  /\ all_chunks[i].chunk_id =
                        Chars(MetadataGet(passed_docs[1].metadata, "source", "unknown"))
                        \o <<"_", "c", "h", "u", "n", "k", "_">> \o StrOfInt(i - 1)
        /\ \A i, j \in 1 .. Len(all_chunks) :
              i # j => all_chunks[i].chunk_id # all_chunks[j].chunk_id

\* C23: chunk_documents leaves the caller's Document objects as they were
\* passed: no key is added to or changed in a document's metadata
C23_InputsUnchanged ==
    pc = "chunked" => caller_docs = passed_docs

----------------------------------------------------------------------------
(* C25: the index's vector dimensionality *)

\* the add holds a vector whose length is not that of the indexed vectors
OtherLength ==
    /\ pre_coll # <<>>
    /\ \E i \in 1 .. Len(args.embeddings) :
          Len(args.embeddings[i]) # Len(pre_coll[1].embedding)

\* C25: once an add has fixed the index's vector length, every add that
\* contains a vector of another length fails with an error and leaves the
\* index as it was; after clear() an add of another length succeeds
C25_Dimensionality ==
    /\ (op = "add" /\ OtherLength) => (raised /\ coll = pre_coll)
    /\ (op = "index" /\ args.clear_existing) => ~raised

\* C25, amended: the add fails when it has at least one chunk; with an empty
\* chunk list it returns 0 without an error; the index is as it was in both
\* cases. index_documents with clear_existing, which clears and then adds,
\* never fails on the length of the vectors indexed before
C25_DimensionalityAmended ==
    /\ (op = "add" /\ OtherLength) =>
            /\ coll = pre_coll
            /\ IF args.chunks = <<>> THEN ~raised /\ ret_count = 0 ELSE raised
    /\ (op = "index" /\ args.clear_existing) => ~raised

\* an index of vectors of length 2 was cleared and took vectors of length 1
C25_Witness ==
    /\ op = "index"
    /\ args.clear_existing
    /\ pre_coll # <<>>
    /\ Len(pre_coll[1].embedding) = 2
    /\ ~raised
    /\ coll # <<>>
    /\ Len(coll[1].embedding) = 1

----------------------------------------------------------------------------
(* C30: the collection handle; under SpecHandle *)

\* the calls that reach the backend through self.collection, and clear(),
\* which begins with client.delete_collection
HandleCalls == {"search", "add", "stats", "clear"}

\* C30: after any sequence of add_documents, clear and delete_collection
\* calls the store's collection handle names an existing backend collection,
\* so a following search, add_documents, get_stats or clear does not fail for
\* want of the collection
C30_HandleValid ==
    /\ op \in {"add", "clear", "delete_collection"} => collection_exists
    /\ (op \in HandleCalls /\ raised) =>
          \/ collection_exists
          \/ op = "add" /\ Len(args.chunks) # Len(args.embeddings)

----------------------------------------------------------------------------
(* C28: one query's three retrieves; under SpecShared *)

\* the query handlers that hold the RAGResponse query returned
Answered == {h \in running : h.req.kind = "query" /\ h.step = "respond"
                             /\ h.status = 200}

\* C28: in every RAGResponse query returns, the sources are the
\* de-duplicated source labels of retrieved_chunks and the context handed to
\* the generator is the one made of retrieved_chunks, and the generator is
\* never called with an empty context, whatever index_documents and clear
\* calls on the same pipeline fall between the three retrieves of the query
C28_QueryConsistent ==
    /\ \A h \in Answered :
          h.response.retrieved_chunks # <<>> =>
              /\ h.response.sources = SourcesOf(h.response.retrieved_chunks, <<>>)
              /\ h.context = ContextOf(h.response.retrieved_chunks, ContextSeparator)
    /\ \A h \in running : (h.req.kind = "query" /\ h.generated) => h.context # <<>>

====
